---- MODULE Spec2Model ----
(***************************************************************************)
(* Item store of news.xyz: the embedded SQLite adapter (news-server db.rs) *)
(* and the DynamoDB adapter (news-core dynamo.rs), with the ingestion      *)
(* callers that write through them.                                        *)
(*                                                                         *)
(* Time is counted in ticks of half a second.  A timestamp is stored as    *)
(* the text chrono's to_rfc3339 produces, and texts are sequences of       *)
(* ASCII codes, so that every comparison SQLite or DynamoDB makes on a     *)
(* stored timestamp is the byte-wise text comparison the program gets.     *)
(***************************************************************************)
EXTENDS Integers, Sequences, FiniteSets, TLC

VARIABLES
    backend,    \* which adapter the deployment runs: "db", "cloud" or "both"
    rows,       \* SQLite table articles: a set of rows
    cloud,      \* DynamoDB articles table: a set of items
    last,       \* the last completed call and what it returned
    pg,         \* a client following next_cursor page by page
    wr          \* concurrent writers, each inside one insert call

vars == <<backend, rows, cloud, last, pg, wr>>

----------------------------------------------------------------------------
(* Bounds *)

MaxId == 3
MaxTime == 1
MaxLimit == 2
MaxBatch == 2
MaxStored == 3
MaxCount == 2
MaxAged == 5
MaxLevel == 5
MaxParams == 2
MaxPage == 3

Ids == 1..MaxId
Times == 0..MaxTime
Limits == 1..MaxLimit
Cats == {"general", "tech"}
NoCat == "none"
CatOpts == Cats \cup {NoCat}
Images == {"img"}

Min(a, b) == IF a < b THEN a ELSE b

Take(s, n) == SubSeq(s, 1, Min(n, Len(s)))

Range(s) == {s[k] : k \in 1..Len(s)}

----------------------------------------------------------------------------
(* Texts *)

\* Byte-wise comparison of two texts (SQLite BINARY collation, DynamoDB
\* string sort keys): the first differing byte decides, a proper prefix is less.
RECURSIVE StrLess(_, _)
StrLess(a, b) ==
    IF b = <<>> THEN FALSE
    ELSE IF a = <<>> THEN TRUE
    ELSE IF Head(a) # Head(b) THEN Head(a) < Head(b)
    ELSE StrLess(Tail(a), Tail(b))

\* DateTime<Utc>::to_rfc3339: the seconds digit, ".5" when the instant has a
\* fraction (omitted when it has none), then the offset sign of "+00:00".
\* 48.. are the digits, 46 is '.', 43 is '+'.
Rfc3339(t) ==
    <<48 + (t \div 2)>> \o (IF t % 2 = 0 THEN <<>> ELSE <<46, 53>>) \o <<43>>

\* str::parse::<DateTime<Utc>>().unwrap_or_default(): the instant of a
\* well-formed text, the epoch for anything else.
ParseRfc3339(s) ==
    IF Len(s) = 2 /\ s[1] \in 48..57 /\ s[2] = 43
    THEN 2 * (s[1] - 48)
    ELSE IF Len(s) = 4 /\ s[1] \in 48..57 /\ s[2] = 46 /\ s[3] \in 48..57 /\ s[4] = 43
    THEN 2 * (s[1] - 48) + ((s[3] - 48) \div 5)
    ELSE 0

\* Category::as_str, as far as comparing two names needs it: the first
\* letter, 103 being 'g' and 116 't'.
CatText(c) == IF c = "general" THEN <<103>> ELSE <<116>>

\* An article id as text: one character per id, all ids of one length (UUIDs).
IdText(i) == <<48 + i>>

----------------------------------------------------------------------------
(* Articles *)

\* models::Article as the feed fetcher builds it (feeds.rs fetch_feed).
Items == [id : Ids, category : Cats, published_at : Times, image_url : Images]

\* A row that starts with a view counted.
NewRowViewed(a) ==
    [id |-> a.id, category |-> a.category,
     published_at |-> Rfc3339(a.published_at), image_url |-> a.image_url,
     view_count |-> 1, click_count |-> 0, popularity_score |-> 0]

\* The row INSERT writes: published_at as text, the counters at their defaults.
NewRow(a) ==
    [id |-> a.id, category |-> a.category,
     published_at |-> Rfc3339(a.published_at), image_url |-> a.image_url,
     view_count |-> 0, click_count |-> 0, popularity_score |-> 0]

\* row_to_article: the Article read back from a row.
RowToArticle(r) ==
    [id |-> r.id, category |-> r.category,
     published_at |-> ParseRfc3339(r.published_at), image_url |-> r.image_url]

HasId(tbl, id) == \E r \in tbl : r.id = id

\* INSERT OR REPLACE: what the statement would do without IGNORE.
InsertOrReplace(tbl, a) == {r \in tbl : r.id # a.id} \cup {NewRow(a)}

\* INSERT OR IGNORE INTO articles, id being the PRIMARY KEY.
InsertOrIgnore(tbl, a) == IF HasId(tbl, a.id) THEN tbl ELSE tbl \cup {NewRow(a)}

\* The number of rows the statement changed (conn.execute's Ok(n)).
InsertChanges(tbl, a) == IF HasId(tbl, a.id) THEN 0 ELSE 1

----------------------------------------------------------------------------
(* Db::query_articles *)

NoCursor == [kind |-> "none"]

\* Cursor strings a caller can send: not base64 or not JSON ("garbage"), a
\* JSON object without string fields p and i ("nofields"), a token of the
\* DynamoDB adapter ("dynamo"), or a JSON object with string fields p and i
\* ("db"), i = 0 standing for the empty string.
DbTokens ==
    [kind : {"db"}, p : {<<>>} \cup {Rfc3339(t) : t \in Times}, i : {0} \cup Ids]

BadTokens == {[kind |-> "garbage"], [kind |-> "nofields"], [kind |-> "dynamo"]}

\* encode_cursor of db.rs.
EncodeCursor(a) == [kind |-> "db", p |-> Rfc3339(a.published_at), i |-> a.id]

\* decode_cursor of db.rs, with the unwrap_or((String::new(), String::new()))
\* of its caller.
DecodeCursor(c) ==
    IF c.kind = "db" THEN [p |-> c.p, i |-> c.i] ELSE [p |-> <<>>, i |-> 0]

\* ORDER BY published_at DESC, id ASC: the tie-break reversed.
RowAboveIdAsc(r, q) ==
    \/ StrLess(q.published_at, r.published_at)
    \/ r.published_at = q.published_at /\ r.id < q.id

\* ORDER BY published_at DESC, id DESC: r comes before q.
RowAbove(r, q) ==
    \/ StrLess(q.published_at, r.published_at)
    \/ r.published_at = q.published_at /\ r.id > q.id

RECURSIVE OrderByPubId(_)
OrderByPubId(S) ==
    IF S = {} THEN <<>>
    ELSE LET top == CHOOSE r \in S : \A q \in S \ {r} : RowAbove(r, q)
         IN  <<top>> \o OrderByPubId(S \ {top})

\* The cursor condition without its id part.
AfterCursorPubOnly(r, cpub, cid) == StrLess(r.published_at, cpub)

\* The cursor condition with id <= :cid: the cursor's own row is read again.
AfterCursorInclusive(r, cpub, cid) ==
    \/ StrLess(r.published_at, cpub)
    \/ r.published_at = cpub /\ r.id <= cid

\* (published_at < :cpub OR (published_at = :cpub AND id < :cid))
AfterCursor(r, cpub, cid) ==
    \/ StrLess(r.published_at, cpub)
    \/ r.published_at = cpub /\ r.id < cid

\* A query that fetches limit rows only and hands out a cursor whenever the
\* page is full.
QueryArticlesNoExtra(tbl, category, limit, cursor) ==
    LET dec == DecodeCursor(cursor)
        has_cursor == dec.p # <<>>
        matching == {r \in tbl :
                        /\ category # NoCat => r.category = category
                        /\ has_cursor => AfterCursor(r, dec.p, dec.i)}
        fetched == Take(OrderByPubId(matching), limit)
        articles == [k \in 1..Len(fetched) |-> RowToArticle(fetched[k])]
    IN  [articles |-> articles,
         next_cursor |-> IF Len(articles) = limit
                         THEN EncodeCursor(articles[limit]) ELSE NoCursor]

\* Db::query_articles: limit + 1 rows are fetched; if the extra row is
\* there, the first limit are returned with the cursor of the last of them.
QueryArticles(tbl, category, limit, cursor) ==
    LET dec == DecodeCursor(cursor)
        has_cursor == dec.p # <<>>
        matching == {r \in tbl :
                        /\ category # NoCat => r.category = category
                        /\ has_cursor => AfterCursor(r, dec.p, dec.i)}
        fetched == Take(OrderByPubId(matching), limit + 1)
        articles == [k \in 1..Len(fetched) |-> RowToArticle(fetched[k])]
    IN  IF Len(articles) > limit
        THEN [articles |-> Take(articles, limit),
              next_cursor |-> EncodeCursor(articles[limit])]
        ELSE [articles |-> articles, next_cursor |-> NoCursor]

----------------------------------------------------------------------------
(* Db::get_fresh_articles *)

\* The results SQL allows for ORDER BY published_at DESC LIMIT n: the rows
\* in a descending order of published_at, rows of equal published_at in any
\* order, and any of them at the cut.
FreshArticles(tbl, category, cutoff, limit) ==
    LET matching == {r \in tbl :
                        /\ category # NoCat => r.category = category
                        /\ ~StrLess(r.published_at, Rfc3339(cutoff))}
        n == Min(limit, Cardinality(matching))
        picks == {s \in [1..n -> matching] :
                    /\ \A j, k \in 1..n : j < k =>
                          /\ s[j] # s[k]
                          /\ ~StrLess(s[j].published_at, s[k].published_at)
                    /\ \A r \in matching \ Range(s) :
                          \A k \in 1..n : ~StrLess(s[k].published_at, r.published_at)}
    IN  {[k \in 1..n |-> RowToArticle(s[k])] : s \in picks}

----------------------------------------------------------------------------
(* State *)

Idle == [op |-> "none"]

NoSession ==
    [state |-> "idle", category |-> NoCat, limit |-> 1, cursor |-> NoCursor,
     page |-> <<>>, acc |-> <<>>, dirty |-> "clean"]

InitCommon ==
    /\ rows = {}
    /\ cloud = {}
    /\ last = Idle
    /\ pg = NoSession
    /\ wr = <<>>

Init ==
    /\ backend = "db"
    /\ InitCommon

----------------------------------------------------------------------------
(* Embedded store: calls *)

\* What a write to the table means to a paging client: between two of its
\* pages it is a write the next page has to cope with; once the client has
\* its last page the session is over.
Written(s, changed) ==
    IF ~changed \/ s.state = "idle" THEN s
    ELSE IF s.state = "paging" THEN [s EXCEPT !.dirty = "between"]
    ELSE NoSession

\* Db::insert_article.
DbInsertArticle(a) ==
    /\ backend = "db"
    /\ rows' = InsertOrIgnore(rows, a)
    /\ last' = [op |-> "insert", arg |-> a, ret |-> InsertChanges(rows, a) > 0]
    /\ pg' = Written(pg, rows' # rows)
    /\ UNCHANGED <<backend, cloud, wr>>

\* Db::query_articles.
DbQueryArticles(category, limit, cursor) ==
    /\ backend = "db"
    /\ last' = [op |-> "query", category |-> category, limit |-> limit,
                cursor |-> cursor,
                ret |-> QueryArticles(rows, category, limit, cursor)]
    /\ UNCHANGED <<backend, rows, cloud, pg, wr>>

\* Db::get_fresh_articles; cutoff is the instant now - minutes.
DbGetFreshArticles(category, cutoff, limit) ==
    /\ backend = "db"
    /\ \E res \in FreshArticles(rows, category, cutoff, limit) :
          last' = [op |-> "fresh", category |-> category, limit |-> limit,
                   cutoff |-> cutoff, ret |-> res]
    /\ UNCHANGED <<backend, rows, cloud, pg, wr>>

Next ==
    \/ \E a \in Items : DbInsertArticle(a)
    \/ \E c \in CatOpts, l \in Limits : DbQueryArticles(c, l, NoCursor)

Spec == Init /\ [][Next]_vars

\* The same store, queried with whatever cursor string a caller sends.
NextCursor ==
    \/ \E a \in Items : DbInsertArticle(a)
    \/ \E c \in CatOpts, l \in Limits, k \in BadTokens \cup DbTokens :
          DbQueryArticles(c, l, k)

SpecCursor == Init /\ [][NextCursor]_vars

\* The same store, read through the freshness window.
NextFresh ==
    \/ \E a \in Items : DbInsertArticle(a)
    \/ \E c \in CatOpts, t \in Times, l \in Limits : DbGetFreshArticles(c, t, l)

SpecFresh == Init /\ [][NextFresh]_vars

----------------------------------------------------------------------------
(* A client paging through get_articles while the fetch loop stores articles *)

\* fetch_cycle storing one fetched article; the handler logs the count only.
FetchStore(a) ==
    /\ backend = "db"
    /\ rows' = InsertOrIgnore(rows, a)
    /\ pg' = Written(pg, rows' # rows)
    /\ UNCHANGED <<backend, cloud, last, wr>>

\* What the client holds after a page: the cursor to send next, the page,
\* and every article received so far.
AfterPage(s, res) ==
    [s EXCEPT !.state = IF res.next_cursor = NoCursor THEN "done" ELSE "paging",
              !.cursor = res.next_cursor,
              !.page = res.articles,
              !.acc = s.acc \o res.articles]

\* The first call: no cursor.
PageFirst(category, limit) ==
    /\ backend = "db"
    /\ pg.state # "paging"
    /\ pg' = AfterPage([NoSession EXCEPT !.category = category, !.limit = limit],
                       QueryArticles(rows, category, limit, NoCursor))
    /\ UNCHANGED <<backend, rows, cloud, last, wr>>

\* A later call: the next_cursor of the previous page.
PageNext ==
    /\ backend = "db"
    /\ pg.state = "paging"
    /\ pg' = AfterPage(pg, QueryArticles(rows, pg.category, pg.limit, pg.cursor))
    /\ UNCHANGED <<backend, rows, cloud, last, wr>>

NextPage ==
    \/ \E a \in Items : FetchStore(a)
    \/ \E c \in CatOpts, l \in Limits : PageFirst(c, l)
    \/ PageNext

SpecPage == Init /\ [][NextPage]_vars

----------------------------------------------------------------------------
(* DynamoDB adapter: ArticleStore *)

\* ArticleStore::sort_key: "{published_at}#{article_id}", 35 being '#'.
SortKey(a) == Rfc3339(a.published_at) \o <<35>> \o IdText(a.id)

\* The item put_article builds; the table's primary key is (category, sk).
CloudItem(a) ==
    [category |-> a.category, sk |-> SortKey(a), article_id |-> a.id,
     published_at |-> Rfc3339(a.published_at), image_url |-> a.image_url]

\* item_to_article.
ItemToArticle(x) ==
    [id |-> x.article_id, category |-> x.category,
     published_at |-> ParseRfc3339(x.published_at), image_url |-> x.image_url]

\* attribute_not_exists(sk) fails: an item with the key of a is stored.
HasKey(tbl, a) == \E x \in tbl : x.category = a.category /\ x.sk = SortKey(a)

\* put_item under the condition: the write and its check are one step.
PutIfAbsent(tbl, a) == IF HasKey(tbl, a) THEN tbl ELSE tbl \cup {CloudItem(a)}

\* Tokens of this adapter: the LastEvaluatedKey of a query on the table
\* (category, sk) or on the index all-articles (gsi_pk, sk and the table's key).
CloudToken(index, x) ==
    [kind |-> "dynamo", index |-> index, category |-> x.category, sk |-> x.sk]

\* x comes before y in a descending scan: by sort key, and among the items
\* of one sort key in the index (one per category) in the direction the
\* service happens to keep them.
ItemAbove(x, y, tieUp) ==
    \/ StrLess(y.sk, x.sk)
    \/ /\ x.sk = y.sk
       /\ IF tieUp THEN StrLess(CatText(x.category), CatText(y.category))
                   ELSE StrLess(CatText(y.category), CatText(x.category))

RECURSIVE ScanBackward(_, _)
ScanBackward(S, tieUp) ==
    IF S = {} THEN <<>>
    ELSE LET top == CHOOSE x \in S : \A y \in S \ {x} : ItemAbove(x, y, tieUp)
         IN  <<top>> \o ScanBackward(S \ {top}, tieUp)

\* ArticleStore::query_articles.  The service evaluates at most limit items
\* after the exclusive start key and returns a LastEvaluatedKey whenever it
\* stopped at the limit.  decode_cursor turns any JSON object of strings
\* into a start key; one that is not a key of the queried table or index
\* makes the service reject the request.
CloudQuery(tbl, category, limit, cursor, tieUp) ==
    LET index == IF category = NoCat THEN "gsi" ELSE "table"
        part == {x \in tbl : category # NoCat => x.category = category}
        start == cursor.kind = "dynamo"
        rejected == \/ cursor.kind \in {"db", "nofields"}
                    \/ start /\ cursor.index # index
                    \/ start /\ index = "table" /\ cursor.category # category
        after == {x \in part : start => ItemAbove(cursor, x, tieUp)}
        scanned == Take(ScanBackward(after, tieUp), limit)
        articles == [k \in 1..Len(scanned) |-> ItemToArticle(scanned[k])]
    IN  IF rejected THEN [err |-> TRUE, articles |-> <<>>, next_cursor |-> NoCursor]
        ELSE [err |-> FALSE, articles |-> articles,
              next_cursor |-> IF Len(scanned) = limit
                              THEN CloudToken(index, scanned[limit])
                              ELSE NoCursor]

\* ArticleStore::put_article.
CloudPutArticle(a) ==
    /\ backend = "cloud"
    /\ Cardinality(cloud) < MaxStored
    /\ cloud' = PutIfAbsent(cloud, a)
    /\ last' = [op |-> "put", arg |-> a, ret |-> ~HasKey(cloud, a)]
    /\ UNCHANGED <<backend, rows, pg, wr>>

\* ArticleStore::query_articles, called as the API handler calls it.
CloudQueryArticles(category, limit, cursor) ==
    /\ backend = "cloud"
    /\ \E tieUp \in BOOLEAN :
          last' = [op |-> "query", category |-> category, limit |-> limit,
                   cursor |-> cursor,
                   ret |-> CloudQuery(cloud, category, limit, cursor, tieUp)]
    /\ UNCHANGED <<backend, rows, cloud, pg, wr>>

InitCloud ==
    /\ backend = "cloud"
    /\ InitCommon

\* Cursors that are not this adapter's: an undecodable one, the other
\* adapter's.
ForeignToCloud == {[kind |-> "garbage"], [kind |-> "db"]}

NextCloud ==
    \/ \E a \in Items : CloudPutArticle(a)
    \/ \E c \in CatOpts, l \in Limits, k \in {NoCursor} \cup ForeignToCloud :
          CloudQueryArticles(c, l, k)

SpecCloud == InitCloud /\ [][NextCloud]_vars

----------------------------------------------------------------------------
(* Both adapters behind the one contract, given the same calls *)

NoPair ==
    [state |-> "idle", category |-> NoCat, limit |-> 1,
     db |-> [articles |-> <<>>, next_cursor |-> NoCursor],
     dy |-> [articles |-> <<>>, next_cursor |-> NoCursor]]

InitPair ==
    /\ backend = "both"
    /\ rows = {}
    /\ cloud = {}
    /\ last = Idle
    /\ pg = NoPair
    /\ wr = <<>>

\* What a client holds of the two adapters after a page from each.
PairAfter(category, limit, d, c) ==
    [state |-> IF d.next_cursor = NoCursor \/ c.next_cursor = NoCursor
               THEN "done" ELSE "paging",
     category |-> category, limit |-> limit,
     db |-> [articles |-> d.articles, next_cursor |-> d.next_cursor],
     dy |-> [articles |-> c.articles, next_cursor |-> c.next_cursor]]

\* The same article inserted through Db::insert_article and put_article.
PairInsert(a) ==
    /\ backend = "both"
    /\ pg.state = "idle"
    /\ Cardinality(cloud) < MaxStored
    /\ rows' = InsertOrIgnore(rows, a)
    /\ cloud' = PutIfAbsent(cloud, a)
    /\ last' = [op |-> "insert", arg |-> a,
                db |-> InsertChanges(rows, a) > 0, dy |-> ~HasKey(cloud, a)]
    /\ UNCHANGED <<backend, pg, wr>>

\* The same first query on both.
PairFirst(category, limit) ==
    /\ backend = "both"
    /\ pg.state = "idle"
    /\ \E tieUp \in BOOLEAN :
          pg' = PairAfter(category, limit,
                          QueryArticles(rows, category, limit, NoCursor),
                          CloudQuery(cloud, category, limit, NoCursor, tieUp))
    /\ UNCHANGED <<backend, rows, cloud, last, wr>>

\* The same next query on both, each with the cursor it handed out.
PairNext ==
    /\ backend = "both"
    /\ pg.state = "paging"
    /\ \E tieUp \in BOOLEAN :
          pg' = PairAfter(pg.category, pg.limit,
                          QueryArticles(rows, pg.category, pg.limit,
                                        pg.db.next_cursor),
                          CloudQuery(cloud, pg.category, pg.limit,
                                     pg.dy.next_cursor, tieUp))
    /\ UNCHANGED <<backend, rows, cloud, last, wr>>

NextPair ==
    \/ \E c \in CatOpts, l \in Limits : PairFirst(c, l)
    \/ PairNext
    \/ \E a \in Items : PairInsert(a)

SpecPair == InitPair /\ [][NextPair]_vars

----------------------------------------------------------------------------
(* Two writers inside insert calls at the same time *)

Writers == {"fetch", "other"}

NoItem == [id |-> 0, category |-> NoCat, published_at |-> 0, image_url |-> "img"]

InitConc ==
    /\ backend \in {"db", "cloud"}
    /\ rows = {}
    /\ cloud = {}
    /\ last = Idle
    /\ pg = NoSession
    /\ wr = [w \in Writers |-> [pc |-> "idle", arg |-> NoItem, ret |-> FALSE]]

\* A writer enters insert_article / put_article with an article: for the
\* embedded store it now waits for the connection mutex, for the cloud store
\* its request is on the way.
WriterCall(w, a) ==
    /\ wr[w].pc = "idle"
    /\ wr' = [wr EXCEPT ![w] = [pc |-> "called", arg |-> a, ret |-> FALSE]]
    /\ UNCHANGED <<backend, rows, cloud, last, pg>>

\* The write itself: INSERT OR IGNORE under the mutex, or the conditional
\* put_item at the service; each decides and writes in one step.
WriterExec(w) ==
    /\ wr[w].pc = "called"
    /\ IF backend = "db"
       THEN /\ rows' = InsertOrIgnore(rows, wr[w].arg)
            /\ wr' = [wr EXCEPT ![w].pc = "returned",
                                ![w].ret = InsertChanges(rows, wr[w].arg) > 0]
            /\ UNCHANGED cloud
       ELSE /\ cloud' = PutIfAbsent(cloud, wr[w].arg)
            /\ wr' = [wr EXCEPT ![w].pc = "returned",
                                ![w].ret = ~HasKey(cloud, wr[w].arg)]
            /\ UNCHANGED rows
    /\ UNCHANGED <<backend, last, pg>>

NextConc ==
    \/ \E w \in Writers, a \in Items : WriterCall(w, a)
    \/ \E w \in Writers : WriterExec(w)

SpecConc == InitConc /\ [][NextConc]_vars

----------------------------------------------------------------------------
(* Batch insert with storage failures *)

\* What the feeds list during one cycle: one article per link.
Fetched ==
    {[id |-> i, category |-> "tech", published_at |-> i % (MaxTime + 1),
      image_url |-> "img"] : i \in Ids}

Batches == UNION {[1..n -> Fetched] : n \in 1..MaxBatch}

\* Db::insert_articles from item k on: the ? returns the first Err at once.
RECURSIVE InsertArticlesFrom(_, _, _, _, _)
InsertArticlesFrom(tbl, items, fails, k, inserted) ==
    IF k > Len(items) THEN [tbl |-> tbl, err |-> FALSE, ret |-> inserted]
    ELSE IF k \in fails THEN [tbl |-> tbl, err |-> TRUE, ret |-> 0]
    ELSE InsertArticlesFrom(InsertOrIgnore(tbl, items[k]), items, fails, k + 1,
                            inserted + InsertChanges(tbl, items[k]))

\* ArticleStore::put_articles from item k on: an Err is logged, the loop
\* goes on.
RECURSIVE PutArticlesFrom(_, _, _, _, _)
PutArticlesFrom(tbl, items, fails, k, inserted) ==
    IF k > Len(items) THEN [tbl |-> tbl, err |-> FALSE, ret |-> inserted]
    ELSE IF k \in fails THEN PutArticlesFrom(tbl, items, fails, k + 1, inserted)
    ELSE PutArticlesFrom(PutIfAbsent(tbl, items[k]), items, fails, k + 1,
                         IF HasKey(tbl, items[k]) THEN inserted ELSE inserted + 1)

InitBatch ==
    /\ backend \in {"db", "cloud"}
    /\ InitCommon

\* Db::insert_articles; fails are the items at which the storage call fails.
DbInsertArticles(items, fails) ==
    /\ backend = "db"
    /\ LET res == InsertArticlesFrom(rows, items, fails, 1, 0) IN
          /\ rows' = res.tbl
          /\ last' = [op |-> "batch", items |-> items, fails |-> fails,
                      err |-> res.err, ret |-> res.ret,
                      before |-> Cardinality(rows)]
    /\ UNCHANGED <<backend, cloud, pg, wr>>

\* ArticleStore::put_articles.
CloudPutArticles(items, fails) ==
    /\ backend = "cloud"
    /\ LET res == PutArticlesFrom(cloud, items, fails, 1, 0) IN
          /\ cloud' = res.tbl
          /\ last' = [op |-> "batch", items |-> items, fails |-> fails,
                      err |-> res.err, ret |-> res.ret,
                      before |-> Cardinality(cloud)]
    /\ UNCHANGED <<backend, rows, pg, wr>>

NextBatch ==
    \/ \E b \in Batches : \E f \in SUBSET (1..Len(b)) : DbInsertArticles(b, f)
    \/ \E b \in Batches : \E f \in SUBSET (1..Len(b)) : CloudPutArticles(b, f)

SpecBatch == InitBatch /\ [][NextBatch]_vars

----------------------------------------------------------------------------
(* Popularity: counters, score and the statements that touch them *)

\* image_url IS NULL.
Null == "null"

\* view_count * 0.7 + click_count * 0.3, counted in tenths.  SQLite computes
\* it in doubles; for the counters of this model the doubles are ordered and
\* equal exactly as the tenths are.
Score(v, c) == 7 * v + 3 * c

\* A row of tbl by id (ids are unique in tbl).
RowOf(tbl, id) == CHOOSE r \in tbl : r.id = id

\* UPDATE articles SET view_count = view_count + 2: a statement counting twice.
IncrementViewTwice(tbl, id) ==
    {IF r.id = id THEN [r EXCEPT !.view_count = @ + 2] ELSE r : r \in tbl}

\* UPDATE articles SET view_count = view_count + 1 WHERE id = ?1
IncrementView(tbl, id) ==
    {IF r.id = id THEN [r EXCEPT !.view_count = @ + 1] ELSE r : r \in tbl}

\* UPDATE articles SET click_count = click_count + 1 WHERE id = ?1
IncrementClick(tbl, id) ==
    {IF r.id = id THEN [r EXCEPT !.click_count = @ + 1] ELSE r : r \in tbl}

\* UPDATE articles SET popularity_score = view_count * 0.7 + click_count * 0.3
\* WHERE id = ?1
UpdatePopularity(tbl, id) ==
    {IF r.id = id
     THEN [r EXCEPT !.popularity_score = Score(r.view_count, r.click_count)]
     ELSE r : r \in tbl}

\* SELECT view_count / click_count FROM articles WHERE id = ?1 through
\* query_row: the counter, or QueryReturnedNoRows turned into Err.
SelectCount(tbl, op, id) ==
    IF ~HasId(tbl, id) THEN [ok |-> FALSE, count |-> 0]
    ELSE [ok |-> TRUE,
          count |-> IF op = "view" THEN RowOf(tbl, id).view_count
                    ELSE RowOf(tbl, id).click_count]

----------------------------------------------------------------------------
(* Retention: soft degrade, hard evict, fixed-horizon expiry *)

\* WHERE published_at < ?1, the parameter being cutoff.to_rfc3339().
Older(tbl, cutoff) == {r \in tbl : StrLess(r.published_at, Rfc3339(cutoff))}

\* SELECT popularity_score ... ORDER BY popularity_score LIMIT 1 OFFSET off,
\* with unwrap_or(0.0) for the query that returns no row.
ScoreAtAsc(S, off) ==
    IF off >= Cardinality(S) THEN 0
    ELSE CHOOSE s \in {r.popularity_score : r \in S} :
            /\ Cardinality({r \in S : r.popularity_score < s}) <= off
            /\ off < Cardinality({r \in S : r.popularity_score <= s})

\* The same with ORDER BY popularity_score DESC.
ScoreAtDesc(S, off) ==
    IF off >= Cardinality(S) THEN 0
    ELSE CHOOSE s \in {r.popularity_score : r \in S} :
            /\ Cardinality({r \in S : r.popularity_score > s}) <= off
            /\ off < Cardinality({r \in S : r.popularity_score >= s})

\* The median query of degrade_old_unpopular_images: over the older rows
\* with popularity_score > 0, at OFFSET COUNT(*) / 2.
MedianScore(tbl, cutoff) ==
    LET scored == {r \in Older(tbl, cutoff) : r.popularity_score > 0}
    IN  ScoreAtAsc(scored, Cardinality(scored) \div 2)

\* The UPDATE without its popularity_score > 0 condition.
DegradedWithZero(tbl, cutoff) ==
    {r \in Older(tbl, cutoff) :
        /\ r.popularity_score < MedianScore(tbl, cutoff)
        /\ r.image_url # Null}

\* The rows the UPDATE ... SET image_url = NULL of the pass matches.
Degraded(tbl, cutoff) ==
    {r \in Older(tbl, cutoff) :
        /\ r.popularity_score < MedianScore(tbl, cutoff)
        /\ r.popularity_score > 0
        /\ r.image_url # Null}

\* A pass that deletes the rows it should degrade.
DegradeByDeleting(tbl, cutoff) == tbl \ Degraded(tbl, cutoff)

\* Db::degrade_old_unpopular_images: the table after the pass.
DegradeOldUnpopularImages(tbl, cutoff) ==
    LET hit == Degraded(tbl, cutoff)
    IN  (tbl \ hit) \cup {[r EXCEPT !.image_url = Null] : r \in hit}

\* The cutoff query of cleanup_old_articles_bottom_80: over the older rows,
\* highest score first, at OFFSET COUNT(*) * 20 / 100.
Percentile20Score(tbl, cutoff) ==
    LET old == Older(tbl, cutoff)
    IN  ScoreAtDesc(old, (Cardinality(old) * 20) \div 100)

\* A DELETE with popularity_score <= ?2: the rows at the cutoff score go too.
EvictedWithTies(tbl, cutoff) ==
    {r \in Older(tbl, cutoff) : r.popularity_score <= Percentile20Score(tbl, cutoff)}

\* The rows DELETE ... WHERE published_at < ?1 AND popularity_score < ?2 removes.
Evicted(tbl, cutoff) ==
    {r \in Older(tbl, cutoff) : r.popularity_score < Percentile20Score(tbl, cutoff)}

\* Db::cleanup_old_articles_bottom_80: the table after the pass.
CleanupOldArticlesBottom80(tbl, cutoff) == tbl \ Evicted(tbl, cutoff)

\* Db::delete_old_articles: DELETE FROM articles WHERE published_at < ?1.
DeleteOldArticles(tbl, before) == tbl \ Older(tbl, before)

\* What the callers of record_view / record_click still hold of their
\* answers once rows are deleted: an answer about a deleted row tells nothing
\* about the row a later insert creates under the same id.
Observed(w, tbl) ==
    [v \in DOMAIN w |->
        IF w[v].pc = "returned" /\ ~HasId(tbl, w[v].id)
        THEN [pc |-> "idle", op |-> "view", id |-> 0, ret |-> [ok |-> FALSE, count |-> 0]]
        ELSE w[v]]

\* The instants a pass can take as now - horizon.
Cutoffs == 0..(MaxTime + 1)

\* Db::degrade_old_unpopular_images as run_cycle calls it.
DbDegradeOldUnpopularImages(cutoff) ==
    /\ backend = "db"
    /\ rows' = DegradeOldUnpopularImages(rows, cutoff)
    /\ last' = [op |-> "degrade", cutoff |-> cutoff,
                ret |-> Cardinality(Degraded(rows, cutoff))]
    /\ UNCHANGED <<backend, cloud, pg, wr>>

\* Db::cleanup_old_articles_bottom_80 as run_cycle calls it.
DbCleanupOldArticlesBottom80(cutoff) ==
    /\ backend = "db"
    /\ rows' = CleanupOldArticlesBottom80(rows, cutoff)
    /\ last' = [op |-> "evict", cutoff |-> cutoff,
                ret |-> Cardinality(Evicted(rows, cutoff))]
    /\ wr' = Observed(wr, rows')
    /\ UNCHANGED <<backend, cloud, pg>>

\* Db::delete_old_articles as the housekeeping tick calls it.
DbDeleteOldArticles(before) ==
    /\ backend = "db"
    /\ rows' = DeleteOldArticles(rows, before)
    /\ last' = [op |-> "expire", cutoff |-> before,
                ret |-> Cardinality(Older(rows, before))]
    /\ wr' = Observed(wr, rows')
    /\ UNCHANGED <<backend, cloud, pg>>

----------------------------------------------------------------------------
(* Callers of record_view / record_click beside the fetch loop and the passes *)

Viewers == {"a", "b"}

\* The article ids the callers send: two articles on the front page.
Watched == {1, 2}

NoAnswer == [ok |-> FALSE, count |-> 0]

NoCall == [pc |-> "idle", op |-> "view", id |-> 0, ret |-> NoAnswer]

\* A caller that never takes the connection mutex.
HoldsMutexNever(w, v) == FALSE

\* v is inside increment_view_count / increment_click_count, between
\* conn.lock() and the end of the function: it holds the connection mutex.
HoldsMutex(w, v) == w[v].pc = "counted"

\* self.conn.lock() succeeds: nobody is inside a Db function.
MutexFree == \A v \in DOMAIN wr : ~HoldsMutex(wr, v)

\* The views and clicks recorded so far plus those on their way.
Engaged ==
    LET RECURSIVE Sum(_)
        Sum(S) == IF S = {} THEN 0
                  ELSE LET r == CHOOSE x \in S : TRUE
                       IN  r.view_count + r.click_count + Sum(S \ {r})
    IN  Sum(rows) + Cardinality({v \in Viewers : wr[v].pc \in {"called", "counted"}})

InitPop ==
    /\ backend = "db"
    /\ rows = {}
    /\ cloud = {}
    /\ last = Idle
    /\ pg = NoSession
    /\ wr = [v \in Viewers |-> NoCall]

\* handle_article_view / handle_article_click: the handler calls
\* increment_view_count / increment_click_count and waits for the mutex.
ViewerCall(v, op, id) ==
    /\ wr[v].pc \in {"idle", "returned"}
    /\ Engaged < MaxCount
    /\ wr' = [wr EXCEPT ![v] = [pc |-> "called", op |-> op, id |-> id, ret |-> NoAnswer]]
    /\ UNCHANGED <<backend, rows, cloud, last, pg>>

\* conn.lock() and the first UPDATE: the counter.
ViewerCount(v) ==
    /\ wr[v].pc = "called"
    /\ MutexFree
    /\ rows' = IF wr[v].op = "view" THEN IncrementView(rows, wr[v].id)
                ELSE IncrementClick(rows, wr[v].id)
    /\ wr' = [wr EXCEPT ![v].pc = "counted"]
    /\ UNCHANGED <<backend, cloud, last, pg>>

\* The second UPDATE (the score), the SELECT of the counter, the return and
\* with it the release of the mutex.
ViewerReturn(v) ==
    /\ wr[v].pc = "counted"
    /\ rows' = UpdatePopularity(rows, wr[v].id)
    /\ wr' = [wr EXCEPT ![v].pc = "returned",
                        ![v].ret = SelectCount(rows', wr[v].op, wr[v].id)]
    /\ UNCHANGED <<backend, cloud, last, pg>>

\* Db::get_article_by_id.
DbGetArticleById(id) ==
    /\ backend = "db"
    /\ last' = [op |-> "get", id |-> id,
                ret |-> {RowToArticle(r) : r \in {q \in rows : q.id = id}}]
    /\ UNCHANGED <<backend, rows, cloud, pg, wr>>

\* Every other Db function starts with conn.lock(): it runs when no caller
\* is inside an increment.
NextPop ==
    \/ \E v \in Viewers, op \in {"view", "click"}, id \in Watched : ViewerCall(v, op, id)
    \/ \E v \in Viewers : ViewerCount(v)
    \/ \E v \in Viewers : ViewerReturn(v)
    \/ MutexFree /\ \E a \in {x \in Fetched : x.id \in Watched} : DbInsertArticle(a)
    \/ MutexFree /\ \E t \in Cutoffs : DbDegradeOldUnpopularImages(t)
    \/ MutexFree /\ \E t \in Cutoffs : DbCleanupOldArticlesBottom80(t)
    \/ MutexFree /\ \E t \in Cutoffs : DbDeleteOldArticles(t)

SpecPop == InitPop /\ [][NextPop]_vars

----------------------------------------------------------------------------
(* Db::get_popular_articles *)

\* The percentile windows callers pass: the enrichment agent's 80..90 and
\* the whole population.
Percentiles == {<<80, 90>>, <<0, 100>>}

\* ORDER BY popularity_score ASC, published_at ASC.
PopularNotAbove(r, q) ==
    \/ r.popularity_score < q.popularity_score
    \/ r.popularity_score = q.popularity_score
       /\ ~StrLess(q.published_at, r.published_at)

\* ORDER BY popularity_score DESC, published_at DESC: r may come before q.
PopularNotBelow(r, q) ==
    \/ r.popularity_score > q.popularity_score
    \/ r.popularity_score = q.popularity_score
       /\ ~StrLess(r.published_at, q.published_at)

\* The orders ORDER BY popularity_score DESC, published_at DESC can give the
\* rows of S: rows equal in both keys come in any order.
RECURSIVE PopularOrders(_)
PopularOrders(S) ==
    IF S = {} THEN {<<>>}
    ELSE UNION {{<<r>> \o s : s \in PopularOrders(S \ {r})} :
                   r \in {r \in S : \A q \in S : PopularNotBelow(r, q)}}

\* The results SQL allows for the percentile query: the rows of nonzero
\* popularity in that order, from OFFSET skip, LIMIT take of them.
PopularArticles(tbl, min_percentile, max_percentile, limit) ==
    LET scored == {r \in tbl : r.popularity_score > 0}
        total == Cardinality(scored)
        skip == ((100 - max_percentile) * total) \div 100
        take == Min(((max_percentile - min_percentile) * total + 99) \div 100, limit)
        orders == PopularOrders(scored)
    IN  {[k \in 1..(Min(skip + take, total) - Min(skip, total)) |->
             RowToArticle(s[skip + k])] : s \in orders}

DbGetPopularArticles(min_percentile, max_percentile, limit) ==
    /\ backend = "db"
    /\ \E res \in PopularArticles(rows, min_percentile, max_percentile, limit) :
          last' = [op |-> "popular", min |-> min_percentile,
                   max |-> max_percentile, limit |-> limit, ret |-> res]
    /\ UNCHANGED <<backend, rows, cloud, pg, wr>>

----------------------------------------------------------------------------
(* One caller's views and clicks, the reads, the fetch loop and the passes *)

NextFrame ==
    \/ \E op \in {"view", "click"}, id \in Watched : ViewerCall("a", op, id)
    \/ ViewerCount("a")
    \/ ViewerReturn("a")
    \/ MutexFree /\ \E a \in {x \in Fetched : x.id \in Watched} : DbInsertArticle(a)
    \/ MutexFree /\ \E c \in CatOpts, l \in Limits : DbQueryArticles(c, l, NoCursor)
    \/ MutexFree /\ \E t \in Cutoffs, l \in Limits : DbGetFreshArticles(NoCat, t, l)
    \/ MutexFree /\ \E id \in Watched : DbGetArticleById(id)
    \/ MutexFree /\ \E p \in Percentiles, l \in Limits : DbGetPopularArticles(p[1], p[2], l)
    \/ MutexFree /\ \E t \in Cutoffs : DbDegradeOldUnpopularImages(t)
    \/ MutexFree /\ \E t \in Cutoffs : DbCleanupOldArticlesBottom80(t)
    \/ MutexFree /\ \E t \in Cutoffs : DbDeleteOldArticles(t)

SpecFrame == InitPop /\ [][NextFrame]_vars

----------------------------------------------------------------------------
(* The retention passes over a table that has been read for a while *)

\* How often an article has been viewed and clicked: up to MaxLevel times
\* each, and one article twice as often as that.
Levels == 0..MaxLevel \cup {2 * MaxLevel}

\* The populations the passes are tried on: up to MaxAged articles, the more
\* popular under the higher ids.
RECURSIVE Profiles(_, _)
Profiles(n, lo) ==
    IF n = 0 THEN {<<>>}
    ELSE UNION {{<<k>> \o s : s \in Profiles(n - 1, k)} : k \in {l \in Levels : l >= lo}}

\* The row of article i after k views and k clicks.
ReadRow(i, k) ==
    [NewRow([id |-> i, category |-> "tech", published_at |-> i % (MaxTime + 1),
             image_url |-> "img"])
     EXCEPT !.view_count = k, !.click_count = k, !.popularity_score = Score(k, k)]

InitRetain ==
    /\ backend = "db"
    /\ \E n \in 0..MaxAged : \E f \in Profiles(n, 0) :
          rows = {ReadRow(i, f[i]) : i \in 1..n}
    /\ cloud = {}
    /\ last = Idle
    /\ pg = NoSession
    /\ wr = <<>>

NextRetain ==
    \/ \E t \in Cutoffs : DbDegradeOldUnpopularImages(t)
    \/ \E t \in Cutoffs : DbCleanupOldArticlesBottom80(t)
    \/ \E t \in Cutoffs : DbDeleteOldArticles(t)

SpecRetain == InitRetain /\ [][NextRetain]_vars

----------------------------------------------------------------------------
(* Identity: dedup.rs article_id_from_url *)

\* A text of a query is a sequence of atoms: a name (a run of ordinary
\* characters), the delimiters "&" and "=", and their percent-encoded forms.
TRACKING_PARAMS ==
    {"utm_source", "utm_medium", "utm_campaign", "utm_term", "utm_content",
     "ref", "fbclid", "gclid", "mc_cid", "mc_eid"}

NoFragment == "none"

\* The parameters a link carries, as written in the link.
LinkKeys == {"q", "b", "utm_source"}
LinkValues == {<<"c">>, <<"c", "%26", "b", "%3D", "c">>}
LinkParams == {<<k, "=">> \o v : k \in LinkKeys, v \in LinkValues}

RECURSIVE JoinAmp(_)
JoinAmp(ps) ==
    IF ps = <<>> THEN <<>>
    ELSE IF Len(ps) = 1 THEN ps[1]
    ELSE ps[1] \o <<"&">> \o JoinAmp(Tail(ps))

LinkQueries == {JoinAmp(ps) : ps \in UNION {[1..n -> LinkParams] : n \in 0..MaxParams}}

\* The links of feed entries: absolute URLs, and references without a scheme
\* (base ""), which Url::parse rejects.
Links ==
    [base : {"https://a.example", ""}, path : {"/x", "/y"},
     query : LinkQueries, fragment : {NoFragment, "top"}]

\* The text split at every "&" (empty pieces dropped, as form_urlencoded does).
RECURSIVE SplitAmp(_, _)
SplitAmp(text, piece) ==
    IF text = <<>> THEN (IF piece = <<>> THEN <<>> ELSE <<piece>>)
    ELSE IF Head(text) = "&"
         THEN (IF piece = <<>> THEN <<>> ELSE <<piece>>) \o SplitAmp(Tail(text), <<>>)
         ELSE SplitAmp(Tail(text), Append(piece, Head(text)))

\* Percent-decoding of one atom.
DecodeAtom(x) == IF x = "%26" THEN "&" ELSE IF x = "%3D" THEN "=" ELSE x

PercentDecode(s) == [k \in 1..Len(s) |-> DecodeAtom(s[k])]

\* The index of the first "=" of a piece, 0 when it has none.
FirstEq(piece) ==
    IF \E k \in 1..Len(piece) : piece[k] = "="
    THEN CHOOSE k \in 1..Len(piece) :
            piece[k] = "=" /\ \A j \in 1..(k - 1) : piece[j] # "="
    ELSE 0

\* One piece as a decoded (key, value) pair.
PairOf(piece) ==
    LET e == FirstEq(piece)
    IN  IF e = 0 THEN <<PercentDecode(piece), <<>>>>
        ELSE <<PercentDecode(SubSeq(piece, 1, e - 1)),
               PercentDecode(SubSeq(piece, e + 1, Len(piece)))>>

\* Url::query_pairs: the decoded pairs of a query text, in order.
QueryPairs(text) ==
    LET pieces == SplitAmp(text, <<>>)
    IN  [k \in 1..Len(pieces) |-> PairOf(pieces[k])]

\* !TRACKING_PARAMS.contains(&key)
IsTracking(pair) == Len(pair[1]) = 1 /\ pair[1][1] \in TRACKING_PARAMS

\* filter, in order.
NonTracking(pairs) == SelectSeq(pairs, LAMBDA p : ~IsTracking(p))

\* format!("{k}={v}") joined by "&" and given to set_query, which leaves
\* "&" and "=" as they are.
QueryString(pairs) ==
    JoinAmp([k \in 1..Len(pairs) |-> pairs[k][1] \o <<"=">> \o pairs[k][2]])

\* normalize_url: the raw text when Url::parse fails; else no fragment, and
\* the query rebuilt from the pairs that are not tracking parameters.
NormalizeUrl(u) ==
    IF u.base = "" THEN u
    ELSE [u EXCEPT !.fragment = NoFragment,
                   !.query = QueryString(NonTracking(QueryPairs(u.query)))]

\* article_id_from_url: the UUID v5 of the normalised text, one id per text.
ArticleIdFromUrl(u) == NormalizeUrl(u)

\* A feed lists two entries with the links u and v.
InitDedup ==
    /\ backend = "db"
    /\ rows = {}
    /\ cloud = {}
    /\ \E u, v \in Links : last = [op |-> "links", u |-> u, v |-> v]
    /\ pg = NoSession
    /\ wr = <<>>

\* fetch_feed resolves the ids of the two entries.
ResolveIds ==
    /\ last.op = "links"
    /\ last' = [op |-> "ids", u |-> last.u, v |-> last.v,
                id_u |-> ArticleIdFromUrl(last.u), id_v |-> ArticleIdFromUrl(last.v)]
    /\ UNCHANGED <<backend, rows, cloud, pg, wr>>

NextDedup == ResolveIds

SpecDedup == InitDedup /\ [][NextDedup]_vars

----------------------------------------------------------------------------
(* Clustering: grouping.rs and its use in get_articles *)

\* Titles, as sequences of characters: three whose neighbours share a
\* trigram while the outer two share none, an unrelated one, a title shorter
\* than a trigram, and the empty title.
Titles ==
    {<<"a", "b", "c", "d">>, <<"b", "c", "d", "e">>, <<"c", "d", "e", "f">>,
     <<"x", "y", "z">>, <<"a", "b">>, <<>>}

\* flags.grouping_threshold, in tenths: 0.0, the default 0.3, and 0.9.
Thresholds == {0, 3, 9}

\* trigrams: every window of three characters; the whole text for a text of
\* one or two characters; nothing for the empty text.
Trigrams(s) ==
    IF Len(s) < 3 THEN (IF s = <<>> THEN {} ELSE {s})
    ELSE {SubSeq(s, k, k + 2) : k \in 1..(Len(s) - 2)}

\* similarity(a, b) >= threshold, the Jaccard quotient compared in integers.
Similar(a, b, threshold) ==
    LET ta == Trigrams(a)
        tb == Trigrams(b)
        intersection == Cardinality(ta \cap tb)
        union == Cardinality(ta \cup tb)
    IN  IF ta = {} /\ tb = {} THEN 10 >= threshold
        ELSE intersection * 10 >= threshold * union

\* find: the root of i.
RECURSIVE Find(_, _)
Find(parent, i) == IF parent[i] # i THEN Find(parent, parent[i]) ELSE i

\* The indices find(i) passes before the root.
RECURSIVE PathOf(_, _)
PathOf(parent, i) == IF parent[i] = i THEN {} ELSE {i} \cup PathOf(parent, parent[i])

\* parent after find(i): every index on the path points at the root.  (The
\* @@ with the empty function changes nothing; it makes the vector a table
\* of values at once.)
Compressed(parent, i) ==
    [k \in DOMAIN parent |->
        IF k \in PathOf(parent, i) THEN Find(parent, i) ELSE parent[k]] @@ <<>>

\* A union that hangs b itself, not its root, under the root of a.
UnionNoRoot(parent, a, b) ==
    LET ra == Find(parent, a)
        pa == Compressed(parent, a)
    IN  IF ra # Find(pa, b) THEN [pa EXCEPT ![b] = ra] @@ <<>> ELSE pa

\* union: parent[rb] = ra when the roots differ.
Union(parent, a, b) ==
    LET ra == Find(parent, a)
        pa == Compressed(parent, a)
        rb == Find(pa, b)
        pb == Compressed(pa, b)
    IN  IF ra # rb THEN [pb EXCEPT ![rb] = ra] @@ <<>> ELSE pb

\* for i in 0..n { for j in (i + 1)..n { ... } }, from the pair (i, j) on.
RECURSIVE ComparePairs(_, _, _, _, _)
ComparePairs(parent, titles, threshold, i, j) ==
    LET n == Len(titles)
    IN  IF i >= n THEN parent
        ELSE IF j >= n THEN ComparePairs(parent, titles, threshold, i + 1, i + 2)
        ELSE ComparePairs(
                 IF Similar(titles[i + 1], titles[j + 1], threshold)
                 THEN Union(parent, i, j) ELSE parent,
                 titles, threshold, i, j + 1)

\* The members pushed under one root, in the order of the loop over i.
RECURSIVE Ascending(_)
Ascending(S) ==
    IF S = {} THEN <<>>
    ELSE LET m == CHOOSE x \in S : \A y \in S : x <= y
         IN  <<m>> \o Ascending(S \ {m})

\* group_articles: the values of the map root -> members.  The order of the
\* Vec is the iteration order of a HashMap: any order.
GroupArticles(titles, threshold) ==
    LET n == Len(titles)
        parent == ComparePairs([k \in 0..(n - 1) |-> k], titles, threshold, 0, 1)
        roots == {Find(parent, k) : k \in 0..(n - 1)}
        groups == {Ascending({k \in 0..(n - 1) : Find(parent, k) = r}) : r \in roots}
    IN  {gs \in [1..Cardinality(groups) -> groups] :
            \A j, k \in 1..Cardinality(groups) : j # k => gs[j] # gs[k]}

\* The page query_articles returned: the articles with their titles,
\* group_id and group_count as stored (None).  An Option<String> is the
\* empty sequence or a sequence of one; a group_count of 0 is None.
NoGroup == <<>>

PageOf(titles) ==
    [k \in 1..Len(titles) |->
        [id |-> Len(titles) + 1 - k, title |-> titles[k],
         group_id |-> NoGroup, group_count |-> 0]]

\* The group whose members index idx belongs to, as its position in groups.
GroupAt(groups, idx) ==
    CHOOSE g \in 1..Len(groups) : \E m \in 1..Len(groups[g]) : groups[g][m] = idx

\* A grouping step that marks nothing and drops nothing.
CollapseNothing(articles, groups) == articles

\* get_articles after the query, with grouping on: the members of every
\* group of more than one get a new group id (Uuid::new_v4, here the
\* position of the group), the first member the count; the articles kept
\* are the first of every group, in the order of the page.
Collapse(articles, groups) ==
    LET marked ==
            [k \in 1..Len(articles) |->
                LET g == GroupAt(groups, k - 1)
                IN  IF Len(groups[g]) > 1
                    THEN [articles[k] EXCEPT
                            !.group_id = <<g>>,
                            !.group_count =
                                IF groups[g][1] = k - 1 THEN Len(groups[g]) ELSE 0]
                    ELSE articles[k]]
        keep_indices == {groups[g][1] : g \in 1..Len(groups)}
        filtered == SelectSeq([k \in 1..Len(articles) |-> <<k - 1, marked[k]>>],
                              LAMBDA p : p[1] \in keep_indices)
    IN  [k \in 1..Len(filtered) |-> filtered[k][2]]

\* A page of titles, the feature flags, and nothing computed yet.
InitGroup ==
    /\ backend = "db"
    /\ rows = {}
    /\ cloud = {}
    /\ \E n \in 0..MaxPage : \E titles \in [1..n -> Titles] :
       \E threshold \in Thresholds, enabled \in BOOLEAN :
          last = [op |-> "page", titles |-> titles, threshold |-> threshold,
                  grouping_enabled |-> enabled]
    /\ pg = NoSession
    /\ wr = <<>>

\* grouping::group_articles on the titles of the page.
CallGroupArticles ==
    /\ last.op = "page"
    /\ \E gs \in GroupArticles(last.titles, last.threshold) :
          last' = [op |-> "groups", titles |-> last.titles,
                   threshold |-> last.threshold, ret |-> gs]
    /\ UNCHANGED <<backend, rows, cloud, pg, wr>>

\* get_articles from the result of the query on.
GetArticles ==
    /\ last.op = "page"
    /\ LET articles == PageOf(last.titles)
       IN  IF last.grouping_enabled /\ Len(articles) > 1
           THEN \E gs \in GroupArticles(last.titles, last.threshold) :
                   last' = [op |-> "articles", titles |-> last.titles,
                            threshold |-> last.threshold,
                            grouping_enabled |-> TRUE,
                            ret |-> Collapse(articles, gs)]
           ELSE last' = [op |-> "articles", titles |-> last.titles,
                         threshold |-> last.threshold,
                         grouping_enabled |-> last.grouping_enabled,
                         ret |-> articles]
    /\ UNCHANGED <<backend, rows, cloud, pg, wr>>

NextGroup ==
    \/ CallGroupArticles
    \/ GetArticles

SpecGroup == InitGroup /\ [][NextGroup]_vars

----------------------------------------------------------------------------
(* A client paging to the end of a table nobody writes to *)

\* The five tech items of the paging scenario, and how many the table may
\* hold for it.
MaxShelf == 5

\* The row of id i: published at t; the first id may be of either category,
\* the others are tech.
ShelfRows(i) ==
    {NewRow([id |-> i, category |-> c, published_at |-> t, image_url |-> "img"]) :
        t \in Times, c \in IF i = 1 THEN Cats ELSE {"tech"}}

\* Tables of at most one row per id.
RECURSIVE Shelves(_)
Shelves(n) ==
    IF n = 0 THEN {{}}
    ELSE LET below == Shelves(n - 1)
         IN  below \cup {tbl \cup {r} : tbl \in below, r \in ShelfRows(n)}

InitShelf ==
    /\ backend = "db"
    /\ rows \in Shelves(MaxShelf)
    /\ cloud = {}
    /\ last = Idle
    /\ pg = NoSession
    /\ wr = <<>>

NextShelf ==
    \/ \E c \in CatOpts, l \in Limits : PageFirst(c, l)
    \/ PageNext

SpecShelf == InitShelf /\ [][NextShelf]_vars

----------------------------------------------------------------------------
(* The background loops: fetcher::run and degradation_agent::run *)

\* The bodies the loops run: the two arms of the select! of fetcher::run,
\* and the cycle of degradation_agent::run.
Tasks == {"fetch", "house", "degrade"}

\* The feeds table, or feeds.toml: the second has a category that
\* Category::from_str does not know.
Feeds ==
    <<[source |-> "s1", category |-> "tech", lists |-> 1, image_url |-> "img"],
      [source |-> "s2", category |-> "bogus", lists |-> 3, image_url |-> "img"],
      [source |-> "s3", category |-> "general", lists |-> 2, image_url |-> Null]>>

\* How fetching one feed ends: parsed, the request failed, the body did not
\* parse.
FeedOutcomes == {"ok", "fetch_err", "parse_err"}

\* fetch_feed: the articles of the feed's entries, or an Err.
FetchFeed(feed, outcome) ==
    IF feed.category \notin Cats THEN [ok |-> FALSE, articles |-> <<>>]
    ELSE IF outcome # "ok" THEN [ok |-> FALSE, articles |-> <<>>]
    ELSE [ok |-> TRUE,
          articles |-> <<[id |-> feed.lists, category |-> feed.category,
                          published_at |-> (feed.lists - 1) % (MaxTime + 1),
                          image_url |-> feed.image_url, source |-> feed.source]>>]

\* A fetch_all_feeds that gives up at the first feed that fails.
RECURSIVE FetchAllFeedsUntilErr(_, _)
FetchAllFeedsUntilErr(outcomes, k) ==
    IF k > Len(Feeds) THEN <<>>
    ELSE LET result == FetchFeed(Feeds[k], outcomes[k])
         IN  IF result.ok
             THEN result.articles \o FetchAllFeedsUntilErr(outcomes, k + 1)
             ELSE <<>>

\* fetch_all_feeds from feed k on: Ok(articles) extends the list, an Err is
\* logged and skipped.
RECURSIVE FetchAllFeeds(_, _)
FetchAllFeeds(outcomes, k) ==
    IF k > Len(Feeds) THEN <<>>
    ELSE LET result == FetchFeed(Feeds[k], outcomes[k])
         IN  (IF result.ok THEN result.articles ELSE <<>>)
                 \o FetchAllFeeds(outcomes, k + 1)

\* What a storage call gives its caller.
Results == {"ok", "err"}

\* What the caller does with an Err of the call: warn!, or nothing.
LogOfErr(call) ==
    IF call \in {"articles_without_image", "update_image_url"} THEN "none" ELSE "warn"

\* A loop that returns on an Err.
AfterErrExit(call, next) == "exited"

\* Where the body goes after an Err of the call, next being where it goes
\* after an Ok: on, except that fetch_cycle returns when it cannot list the
\* articles without image.
AfterErr(call, next) == IF call = "articles_without_image" THEN "idle" ELSE next

\* A select! whose arms would each run as a task of their own.
AtSelectAlways(w) == TRUE

\* fetcher::run is at its select!: neither arm's body is running.
AtSelect(w) == w["fetch"].pc = "idle" /\ w["house"].pc = "idle"

\* An UPDATE that leaves an image_url once written or cleared as it is.
UpdateImageUrlOnce(tbl, id, image_url) == tbl

\* UPDATE articles SET image_url = ?1 WHERE id = ?2
UpdateImageUrl(tbl, id, image_url) ==
    {IF r.id = id THEN [r EXCEPT !.image_url = image_url] ELSE r : r \in tbl}

\* SELECT ... WHERE image_url IS NULL ORDER BY published_at DESC LIMIT 50:
\* the ids, rows of one published_at in any order.
ArticlesWithoutImage(tbl) ==
    LET missing == {r \in tbl : r.image_url = Null}
        n == Cardinality(missing)
    IN  {[k \in 1..n |-> s[k].id] :
            s \in {s \in [1..n -> missing] :
                     \A j, k \in 1..n : j < k =>
                        /\ s[j] # s[k]
                        /\ ~StrLess(s[j].published_at, s[k].published_at)}}

\* The views and clicks the table has recorded.
RECURSIVE Counted(_)
Counted(tbl) ==
    IF tbl = {} THEN 0
    ELSE LET r == CHOOSE x \in tbl : TRUE
         IN  r.view_count + r.click_count + Counted(tbl \ {r})

NoLocals == [articles |-> <<>>, no_image |-> <<>>]

\* tokio::time::interval fires at once the first time; run has awaited the
\* first tick of cleanup_interval before its loop.
InitLoop ==
    /\ backend = "db"
    /\ rows = {}
    /\ cloud = {}
    /\ last = [task |-> "none", call |-> "none", res |-> "ok", log |-> "none"]
    /\ pg = [fetch |-> TRUE, house |-> FALSE, degrade |-> TRUE]
    /\ wr = [t \in Tasks |-> [pc |-> "idle", waits |-> FALSE, locals |-> NoLocals]]

\* The period of an interval has passed: its next tick is due.
TickDue(t) ==
    /\ ~pg[t]
    /\ pg' = [pg EXCEPT ![t] = TRUE]
    /\ UNCHANGED <<backend, rows, cloud, last, wr>>

\* The call of task t returned res, the caller logged, and the body moved.
Returned(t, call, res, next, locals) ==
    /\ wr' = [wr EXCEPT ![t].pc = IF res = "err" THEN AfterErr(call, next) ELSE next,
                         ![t].locals = locals]
    /\ last' = [task |-> t, call |-> call, res |-> res,
                log |-> IF res = "err" THEN LogOfErr(call)
                        ELSE IF call \in {"articles_without_image", "update_image_url"}
                        THEN "none" ELSE "info"]

\* The task is at the call and not stuck inside an earlier one.
At(t, call) == wr[t].pc = call /\ ~wr[t].waits

\* select! takes the fetch tick: fetch_cycle starts.
FetchStart ==
    /\ AtSelect(wr) /\ ~wr["fetch"].waits /\ wr["fetch"].pc = "idle"
    /\ pg.fetch
    /\ pg' = [pg EXCEPT !.fetch = FALSE]
    /\ wr' = [wr EXCEPT !["fetch"].pc = "get_enabled_feeds"]
    /\ UNCHANGED <<backend, rows, cloud, last>>

\* load_feeds: db.get_enabled_feeds, with feeds.toml behind it.
LoadFeeds(res) ==
    /\ At("fetch", "get_enabled_feeds")
    /\ Returned("fetch", "get_enabled_feeds", res, "fetch_all_feeds", NoLocals)
    /\ UNCHANGED <<backend, rows, cloud, pg>>

\* fetch_all_feeds(...).await: no storage call.
FetchAllFeedsDone(outcomes) ==
    /\ At("fetch", "fetch_all_feeds")
    /\ wr' = [wr EXCEPT !["fetch"].pc = "insert_articles",
                         !["fetch"].locals.articles = FetchAllFeeds(outcomes, 1)]
    /\ last' = [task |-> "fetch", call |-> "fetch_all_feeds", res |-> "ok",
                log |-> "info", outcomes |-> outcomes]
    /\ UNCHANGED <<backend, rows, cloud, pg>>

\* db.insert_articles(&articles); fails are the items at which the storage
\* call fails.
InsertArticles(fails) ==
    /\ At("fetch", "insert_articles")
    /\ LET res == InsertArticlesFrom(rows, wr["fetch"].locals.articles, fails, 1, 0) IN
          /\ rows' = res.tbl
          /\ Returned("fetch", "insert_articles", IF res.err THEN "err" ELSE "ok",
                      "articles_without_image", wr["fetch"].locals)
    /\ UNCHANGED <<backend, cloud, pg>>

\* db.articles_without_image(50).
ListWithoutImage(res) ==
    /\ At("fetch", "articles_without_image")
    /\ \E ids \in ArticlesWithoutImage(rows) :
          Returned("fetch", "articles_without_image", res,
                   IF ids = <<>> THEN "idle" ELSE "update_image_url",
                   IF res = "ok" THEN [NoLocals EXCEPT !.no_image = ids] ELSE NoLocals)
    /\ UNCHANGED <<backend, rows, cloud, pg>>

\* One round of the loop over no_image: fetch_og_image finds nothing
\* ("none"), or finds an image and db.update_image_url returns res.
EnrichOne(res) ==
    /\ At("fetch", "update_image_url")
    /\ LET id == Head(wr["fetch"].locals.no_image)
           rest == Tail(wr["fetch"].locals.no_image)
           next == IF rest = <<>> THEN "idle" ELSE "update_image_url"
       IN  IF res = "none"
           THEN /\ wr' = [wr EXCEPT !["fetch"].pc = next,
                                    !["fetch"].locals = [NoLocals EXCEPT !.no_image = rest]]
                /\ last' = [task |-> "fetch", call |-> "fetch_og_image", res |-> "ok",
                            log |-> "none"]
                /\ UNCHANGED rows
           ELSE /\ rows' = IF res = "ok" THEN UpdateImageUrl(rows, id, "og") ELSE rows
                /\ Returned("fetch", "update_image_url", res, next,
                            [NoLocals EXCEPT !.no_image = rest])
    /\ UNCHANGED <<backend, cloud, pg>>

\* select! takes the cleanup tick.
HouseStart ==
    /\ AtSelect(wr) /\ ~wr["house"].waits /\ wr["house"].pc = "idle"
    /\ pg.house
    /\ pg' = [pg EXCEPT !.house = FALSE]
    /\ wr' = [wr EXCEPT !["house"].pc = "delete_old_articles"]
    /\ UNCHANGED <<backend, rows, cloud, last>>

\* db.delete_old_articles(&cutoff), cutoff being now - 7 days.
HouseDelete(res, cutoff) ==
    /\ At("house", "delete_old_articles")
    /\ rows' = IF res = "ok" THEN DeleteOldArticles(rows, cutoff) ELSE rows
    /\ Returned("house", "delete_old_articles", res, "cleanup_old_usage", NoLocals)
    /\ UNCHANGED <<backend, cloud, pg>>

\* db.cleanup_old_usage(7): another table.
HouseUsage(res) ==
    /\ At("house", "cleanup_old_usage")
    /\ Returned("house", "cleanup_old_usage", res, "cleanup_expired_cache", NoLocals)
    /\ UNCHANGED <<backend, rows, cloud, pg>>

\* db.cleanup_expired_cache(): another table.
HouseCache(res) ==
    /\ At("house", "cleanup_expired_cache")
    /\ Returned("house", "cleanup_expired_cache", res, "idle", NoLocals)
    /\ UNCHANGED <<backend, rows, cloud, pg>>

\* tick.tick().await of degradation_agent::run returns: run_cycle starts.
DegradeStart ==
    /\ wr["degrade"].pc = "idle" /\ ~wr["degrade"].waits
    /\ pg.degrade
    /\ pg' = [pg EXCEPT !.degrade = FALSE]
    /\ wr' = [wr EXCEPT !["degrade"].pc = "degrade_old_unpopular_images"]
    /\ UNCHANGED <<backend, rows, cloud, last>>

\* state.db.degrade_old_unpopular_images(1).
CycleDegrade(res, cutoff) ==
    /\ At("degrade", "degrade_old_unpopular_images")
    /\ rows' = IF res = "ok" THEN DegradeOldUnpopularImages(rows, cutoff) ELSE rows
    /\ Returned("degrade", "degrade_old_unpopular_images", res,
                "cleanup_old_articles_bottom_80", NoLocals)
    /\ UNCHANGED <<backend, cloud, pg>>

\* state.db.cleanup_old_articles_bottom_80(1).
CycleCleanup(res, cutoff) ==
    /\ At("degrade", "cleanup_old_articles_bottom_80")
    /\ rows' = IF res = "ok" THEN CleanupOldArticlesBottom80(rows, cutoff) ELSE rows
    /\ Returned("degrade", "cleanup_old_articles_bottom_80", res, "idle", NoLocals)
    /\ UNCHANGED <<backend, cloud, pg>>

\* handle_article_view from a request: increment_view_count, one storage call.
RequestView(id) ==
    /\ HasId(rows, id)
    /\ Counted(rows) < MaxCount
    /\ rows' = UpdatePopularity(IncrementView(rows, id), id)
    /\ last' = [task |-> "request", call |-> "increment_view_count", res |-> "ok",
                log |-> "none"]
    /\ UNCHANGED <<backend, cloud, pg, wr>>

\* get_article_by_id from a request.
RequestRead(id) ==
    /\ last' = [task |-> "request", call |-> "get_article_by_id",
                res |-> IF HasId(rows, id) THEN "ok" ELSE "err",
                log |-> "none"]
    /\ UNCHANGED <<backend, rows, cloud, pg, wr>>

FetchSteps ==
    \/ FetchStart
    \/ \E res \in Results : LoadFeeds(res)
    \/ \E outcomes \in [1..Len(Feeds) -> FeedOutcomes] : FetchAllFeedsDone(outcomes)
    \/ \E fails \in SUBSET (1..Len(wr["fetch"].locals.articles)) : InsertArticles(fails)
    \/ \E res \in Results : ListWithoutImage(res)
    \/ \E res \in Results \cup {"none"} : EnrichOne(res)

HouseSteps ==
    \/ HouseStart
    \/ \E res \in Results, t \in Cutoffs : HouseDelete(res, t)
    \/ \E res \in Results : HouseUsage(res)
    \/ \E res \in Results : HouseCache(res)

DegradeSteps ==
    \/ DegradeStart
    \/ \E res \in Results, t \in Cutoffs : CycleDegrade(res, t)
    \/ \E res \in Results, t \in Cutoffs : CycleCleanup(res, t)

NextLoop ==
    \/ \E t \in Tasks : TickDue(t)
    \/ FetchSteps
    \/ HouseSteps
    \/ DegradeSteps
    \/ \E id \in Watched : RequestView(id)
    \/ \E id \in Watched : RequestRead(id)

SpecLoop == InitLoop /\ [][NextLoop]_vars

\* The loops as the runtime runs them: a body that can take a step takes
\* it (every storage call returns), and select! picks among its ready arms
\* at random, so an arm that is ready again and again is taken.
FairLoop ==
    /\ SpecLoop
    /\ WF_vars(FetchSteps) /\ WF_vars(HouseSteps) /\ WF_vars(DegradeSteps)
    /\ SF_vars(FetchStart) /\ SF_vars(HouseStart)

\* A storage call that does not return: the connection mutex is held by
\* someone who never releases it, or the statement never finishes.  conn.lock()
\* and rusqlite block the calling thread; run, fetch_cycle and run_cycle wrap
\* no call in a timeout, so nothing takes the body out of the call.
Stall(t) ==
    /\ wr[t].pc \notin {"idle", "fetch_all_feeds"}
    /\ ~wr[t].waits
    /\ wr' = [wr EXCEPT ![t].waits = TRUE]
    /\ UNCHANGED <<backend, rows, cloud, last, pg>>

NextStall ==
    \/ NextLoop
    \/ \E t \in Tasks : Stall(t)

\* The loops over a store whose calls may never return.
StallLoop ==
    /\ InitLoop /\ [][NextStall]_vars
    /\ WF_vars(FetchSteps) /\ WF_vars(HouseSteps) /\ WF_vars(DegradeSteps)
    /\ SF_vars(FetchStart) /\ SF_vars(HouseStart)

----------------------------------------------------------------------------
(* The percentile query over a table that has been read for a while *)

\* Percentile windows: those of Percentiles, and two whose OFFSET is not 0
\* on a small table.
Windows == Percentiles \cup {<<50, 75>>, <<0, 50>>}

\* The limits: those of the front page, and the enrichment agent's 100.
PopularLimits == Limits \cup {100}

NextRank ==
    \E p \in Windows, l \in PopularLimits : DbGetPopularArticles(p[1], p[2], l)

SpecRank == InitRetain /\ [][NextRank]_vars

----------------------------------------------------------------------------
(* Articles deleted by the passes while their feeds still list them *)

\* How many times the model counts an id coming back.
MaxCycles == 2

\* What has happened to the ids so far: which are deleted and not stored
\* again, and how often each was stored again after a deletion.
NoChurn == [state |-> "idle", deleted |-> {}, cycles |-> [i \in Watched |-> 0]]

IdsIn(tbl) == {r.id : r \in tbl}

\* The history after a call that took the table from tbl to new.
Churned(h, tbl, new) ==
    [h EXCEPT !.deleted = (h.deleted \cup (IdsIn(tbl) \ IdsIn(new))) \ IdsIn(new),
              !.cycles = [i \in Watched |->
                            IF i \in h.deleted /\ i \in IdsIn(new)
                            THEN Min(h.cycles[i] + 1, MaxCycles) ELSE h.cycles[i]]]

InitChurn ==
    /\ backend = "db"
    /\ rows = {}
    /\ cloud = {}
    /\ last = Idle
    /\ pg = NoChurn
    /\ wr = <<>>

\* fetch_cycle stores an article its feed lists: Db::insert_article.
ChurnInsert(a) ==
    /\ rows' = InsertOrIgnore(rows, a)
    /\ last' = [op |-> "insert", arg |-> a, ret |-> InsertChanges(rows, a) > 0]
    /\ pg' = Churned(pg, rows, rows')
    /\ UNCHANGED <<backend, cloud, wr>>

\* A request counts a view: Db::increment_view_count.
ChurnView(id) ==
    /\ HasId(rows, id)
    /\ Counted(rows) < MaxCount
    /\ rows' = UpdatePopularity(IncrementView(rows, id), id)
    /\ last' = [op |-> "view", id |-> id, ret |-> SelectCount(rows', "view", id)]
    /\ UNCHANGED <<backend, cloud, pg, wr>>

\* The degradation cycle's Db::cleanup_old_articles_bottom_80.
ChurnEvict(cutoff) ==
    /\ rows' = CleanupOldArticlesBottom80(rows, cutoff)
    /\ last' = [op |-> "evict", cutoff |-> cutoff,
                ret |-> Cardinality(Evicted(rows, cutoff))]
    /\ pg' = Churned(pg, rows, rows')
    /\ UNCHANGED <<backend, cloud, wr>>

\* The housekeeping tick's Db::delete_old_articles.
ChurnExpire(before) ==
    /\ rows' = DeleteOldArticles(rows, before)
    /\ last' = [op |-> "expire", cutoff |-> before,
                ret |-> Cardinality(Older(rows, before))]
    /\ pg' = Churned(pg, rows, rows')
    /\ UNCHANGED <<backend, cloud, wr>>

NextChurn ==
    \/ \E a \in {x \in Fetched : x.id \in Watched} : ChurnInsert(a)
    \/ \E id \in Watched : ChurnView(id)
    \/ \E t \in Cutoffs : ChurnEvict(t)
    \/ \E t \in Cutoffs : ChurnExpire(t)

SpecChurn == InitChurn /\ [][NextChurn]_vars

----------------------------------------------------------------------------
(* Images cleared by the degradation cycle and fetched again by fetch_cycle *)

\* What has happened to the images so far: the ids whose image_url a degrade
\* pass has cleared, and those of them that got an image again since.
NoImageHistory == [state |-> "idle", cleared |-> {}, restored |-> {}]

\* Db::update_image_url for every id of a set.
RECURSIVE UpdateImageUrls(_, _, _)
UpdateImageUrls(tbl, ids, image_url) ==
    IF ids = {} THEN tbl
    ELSE LET id == CHOOSE i \in ids : TRUE
         IN  UpdateImageUrls(UpdateImageUrl(tbl, id, image_url), ids \ {id}, image_url)

InitImage ==
    /\ backend = "db"
    /\ rows = {}
    /\ cloud = {}
    /\ last = Idle
    /\ pg = NoImageHistory
    /\ wr = <<>>

\* fetch_cycle stores an article its feed lists.
ImageInsert(a) ==
    /\ rows' = InsertOrIgnore(rows, a)
    /\ last' = [op |-> "insert", arg |-> a, ret |-> InsertChanges(rows, a) > 0]
    /\ UNCHANGED <<backend, cloud, pg, wr>>

\* A request counts a view or a click.
ImageCount(op, id) ==
    /\ HasId(rows, id)
    /\ Counted(rows) < MaxCount
    /\ rows' = UpdatePopularity(IF op = "view" THEN IncrementView(rows, id)
                                ELSE IncrementClick(rows, id), id)
    /\ last' = [op |-> op, id |-> id, ret |-> SelectCount(rows', op, id)]
    /\ UNCHANGED <<backend, cloud, pg, wr>>

\* run_cycle's degrade_old_unpopular_images.
ImageDegrade(cutoff) ==
    /\ rows' = DegradeOldUnpopularImages(rows, cutoff)
    /\ last' = [op |-> "degrade", cutoff |-> cutoff,
                ret |-> Cardinality(Degraded(rows, cutoff))]
    /\ pg' = [pg EXCEPT !.cleared = @ \cup IdsIn(Degraded(rows, cutoff))]
    /\ UNCHANGED <<backend, cloud, wr>>

\* The OGP part of fetch_cycle: articles_without_image(50), then for every
\* article listed fetch_og_image and, if it found an image (the ids of
\* found), update_image_url.
ImageEnrich(found) ==
    /\ \E ids \in ArticlesWithoutImage(rows) :
          /\ found \subseteq Range(ids)
          /\ last' = [op |-> "enrich", listed |-> ids, found |-> found]
    /\ rows' = UpdateImageUrls(rows, found, "og")
    /\ pg' = [pg EXCEPT !.restored = @ \cup (found \cap pg.cleared)]
    /\ UNCHANGED <<backend, cloud, wr>>

NextImage ==
    \/ \E a \in {x \in Fetched : x.id \in Watched} : ImageInsert(a)
    \/ \E op \in {"view", "click"}, id \in Watched : ImageCount(op, id)
    \/ \E t \in Cutoffs : ImageDegrade(t)
    \/ \E found \in SUBSET Watched : ImageEnrich(found)

SpecImage == InitImage /\ [][NextImage]_vars

----------------------------------------------------------------------------
(* A client paging through get_articles with grouping enabled *)

\* The title the feed gave the article of an id: the first three are similar
\* in a chain, the others to nothing.
TitleOf(id) ==
    IF id = 1 THEN <<"a", "b", "c", "d">>
    ELSE IF id = 2 THEN <<"b", "c", "d", "e">>
    ELSE IF id = 3 THEN <<"c", "d", "e", "f">>
    ELSE IF id = 4 THEN <<"x", "y", "z">>
    ELSE IF id = 5 THEN <<"a", "b">>
    ELSE <<>>

\* The Article of the handler: what the store returned, with its title and
\* group_id and group_count as stored (None).
Titled(a) ==
    [id |-> a.id, category |-> a.category, published_at |-> a.published_at,
     image_url |-> a.image_url, title |-> TitleOf(a.id),
     group_id |-> NoGroup, group_count |-> 0]

TitledPage(articles) == [k \in 1..Len(articles) |-> Titled(articles[k])]

TitlesOf(articles) == [k \in 1..Len(articles) |-> TitleOf(articles[k].id)]

\* A handler that makes the cursor from the last article it returns.
ArticlesResponseCursorOfKept(res, groups) ==
    LET articles == IF Len(res.articles) > 1
                    THEN Collapse(TitledPage(res.articles), groups)
                    ELSE TitledPage(res.articles)
    IN  [articles |-> articles,
         next_cursor |-> IF res.next_cursor = NoCursor THEN NoCursor
                         ELSE EncodeCursor(articles[Len(articles)])]

\* ArticlesResponse { articles, next_cursor } of get_articles, res being
\* what query_articles returned and groups what group_articles returned.
ArticlesResponse(res, groups) ==
    [articles |-> IF Len(res.articles) > 1
                  THEN Collapse(TitledPage(res.articles), groups)
                  ELSE TitledPage(res.articles),
     next_cursor |-> res.next_cursor]

\* What the client holds: the cursor to send next, the page it got, all it
\* got so far; and, beside it, what the store had returned for those pages.
NoGrouped ==
    [state |-> "idle", category |-> NoCat, limit |-> 1, threshold |-> 0,
     cursor |-> NoCursor, page |-> <<>>, acc |-> <<>>,
     raw |-> <<>>, rawacc |-> <<>>]

AfterGrouped(s, res, body) ==
    [s EXCEPT !.state = IF body.next_cursor = NoCursor THEN "done" ELSE "paging",
              !.cursor = body.next_cursor,
              !.page = body.articles,
              !.acc = s.acc \o body.articles,
              !.raw = res.articles,
              !.rawacc = s.rawacc \o res.articles]

\* How many rows the table holds for the client.
MaxGrouped == 4

InitGrouped ==
    /\ backend = "db"
    /\ rows \in Shelves(MaxGrouped)
    /\ cloud = {}
    /\ last = Idle
    /\ pg = NoGrouped
    /\ wr = <<>>

\* get_articles without a cursor, the flags having grouping_enabled and the
\* threshold.
GroupedFirst(category, limit, threshold) ==
    /\ pg.state = "idle"
    /\ LET res == QueryArticles(rows, category, limit, NoCursor)
       IN  \E groups \in GroupArticles(TitlesOf(res.articles), threshold) :
              pg' = AfterGrouped([NoGrouped EXCEPT !.category = category,
                                                   !.limit = limit,
                                                   !.threshold = threshold],
                                 res, ArticlesResponse(res, groups))
    /\ UNCHANGED <<backend, rows, cloud, last, wr>>

\* get_articles with the next_cursor of the page before.
GroupedNext ==
    /\ pg.state = "paging"
    /\ LET res == QueryArticles(rows, pg.category, pg.limit, pg.cursor)
       IN  \E groups \in GroupArticles(TitlesOf(res.articles), pg.threshold) :
              pg' = AfterGrouped(pg, res, ArticlesResponse(res, groups))
    /\ UNCHANGED <<backend, rows, cloud, last, wr>>

NextGrouped ==
    \/ \E c \in CatOpts, l \in Limits, th \in Thresholds : GroupedFirst(c, l, th)
    \/ GroupedNext

SpecGrouped == InitGrouped /\ [][NextGrouped]_vars

----------------------------------------------------------------------------
(* Order of the claims: by instant, then by id, both descending *)

ArticleAbove(a, b) ==
    \/ a.published_at > b.published_at
    \/ a.published_at = b.published_at /\ a.id > b.id

StrictlyDescending(s) ==
    \A j, k \in 1..Len(s) : j < k => ArticleAbove(s[j], s[k])

InCategory(x, category) == category # NoCat => x.category = category

\* The stored article of every row, as a reader sees it.
Stored == {RowToArticle(r) : r \in rows}

\* s is made of the first n articles of S in the order of the claims.
FirstOf(s, S, n) ==
    /\ Len(s) = Min(n, Cardinality(S))
    /\ Range(s) \subseteq S
    /\ StrictlyDescending(s)
    /\ \A x \in S \ Range(s) : \A k \in 1..Len(s) : ArticleAbove(s[k], x)

----------------------------------------------------------------------------
\* C1: Db::insert_article of an item whose id is not stored returns true and
\* adds exactly one row, that item with zeroed counters; of an item whose id
\* is stored it returns false and leaves every row as it was.  So a second
\* insert of the same id after a first that returned true returns false.
C1_IdempotentInsert ==
    [][(last'.op = "insert" /\ <<rows, last>>' # <<rows, last>>) =>
          LET a == last'.arg IN
          /\ ~HasId(rows, a.id) =>
                /\ last'.ret = TRUE
                /\ Cardinality(rows') = Cardinality(rows) + 1
                /\ rows \subseteq rows'
                /\ \E r \in rows' \ rows :
                      /\ RowToArticle(r) = a
                      /\ r.view_count = 0 /\ r.click_count = 0
                      /\ r.popularity_score = 0
          /\ HasId(rows, a.id) => last'.ret = FALSE /\ rows' = rows
          /\ (last.op = "insert" /\ last.ret = TRUE /\ last.arg.id = a.id) =>
                last'.ret = FALSE /\ Cardinality(rows') = Cardinality(rows)]_vars

\* A second insert of a stored id, with other fields, was refused.
C1_Witness ==
    /\ last.op = "insert" /\ last.ret = FALSE
    /\ \E r \in rows : r.id = last.arg.id /\ RowToArticle(r) # last.arg

\* C5: without a cursor Db::query_articles returns the first limit stored
\* articles of the category (of all categories when none is given) in the
\* order published_at descending, id descending.
C5_QueryOrderScope ==
    (last.op = "query" /\ last.cursor = NoCursor) =>
        /\ Len(last.ret.articles) <= last.limit
        /\ \A k \in 1..Len(last.ret.articles) :
              InCategory(last.ret.articles[k], last.category)
        /\ FirstOf(last.ret.articles,
                   {x \in Stored : InCategory(x, last.category)}, last.limit)

\* A page cut by the limit, in a category, with two rows of one instant.
C5_Witness ==
    /\ last.op = "query" /\ last.cursor = NoCursor /\ last.category # NoCat
    /\ Len(last.ret.articles) = last.limit
    /\ Cardinality({x \in Stored : InCategory(x, last.category)}) > last.limit
    /\ \E x, y \in Stored : x.id # y.id /\ x.published_at = y.published_at
                             /\ x.category = y.category

----------------------------------------------------------------------------
(* Cursors that are not this store's *)

\* Not base64, not JSON, or a field missing or empty.
Malformed(c) ==
    \/ c.kind \in {"garbage", "nofields"}
    \/ c.kind = "db" /\ (c.p = <<>> \/ c.i = 0)

\* A token of the other adapter, or a well-formed token that names no stored
\* article (rows are never removed here, so the store has not issued it).
Foreign(c) ==
    \/ c.kind = "dynamo"
    \/ c.kind = "db" /\ \A x \in Stored : EncodeCursor(x) # c

\* C8: with a malformed or foreign cursor Db::query_articles returns what
\* the same call without a cursor returns.
C8_BadCursorFirstPage ==
    (last.op = "query" /\ (Malformed(last.cursor) \/ Foreign(last.cursor))) =>
        last.ret = QueryArticles(rows, last.category, last.limit, NoCursor)

\* C10: Db::get_fresh_articles returns the first limit articles, in the
\* order published_at descending, id descending, of those of the category
\* published at or after the cutoff.
C10_FreshOrder ==
    last.op = "fresh" =>
        FirstOf(last.ret,
                {x \in Stored : /\ InCategory(x, last.category)
                                /\ x.published_at >= last.cutoff},
                last.limit)

----------------------------------------------------------------------------
(* Paging *)

IdsOf(s) == {s[k].id : k \in 1..Len(s)}

NoRepeat(s) == \A j, k \in 1..Len(s) : j # k => s[j].id # s[k].id

\* C6: pages followed to the end with no write in between add up to the
\* result of one query whose limit is the number of matching rows: the same
\* articles in the same order, none twice, none missing.
C6_PaginationComplete ==
    (pg.state = "done" /\ pg.dirty = "clean") =>
        LET matching == {x \in Stored : InCategory(x, pg.category)}
            total == Cardinality(matching)
            whole == QueryArticles(rows, pg.category,
                                   IF total = 0 THEN 1 ELSE total, NoCursor)
        IN  /\ pg.acc = whole.articles
            /\ NoRepeat(pg.acc)
            /\ Range(pg.acc) = matching
            /\ StrictlyDescending(pg.acc)

\* Several pages were followed over rows of one instant, the last one full.
C6_Witness ==
    /\ pg.state = "done" /\ pg.dirty = "clean"
    /\ Len(pg.acc) > pg.limit
    /\ Len(pg.page) = pg.limit
    /\ \E j, k \in 1..Len(pg.acc) :
          j # k /\ pg.acc[j].published_at = pg.acc[k].published_at

\* C7: a call that resumes from a cursor returns the first limit stored
\* articles of the category that sort strictly below the cursor's position,
\* whatever was stored since the cursor was issued; it repeats no article of
\* an earlier page and leaves none below the cursor behind: it ends the
\* paging only when it has returned them all, and otherwise hands out the
\* position of the last one it returned.
C7_CursorStable ==
    [][/\ PageNext =>
            LET at == [published_at |-> ParseRfc3339(pg.cursor.p),
                       id |-> pg.cursor.i]
                below == {x \in Stored : /\ InCategory(x, pg.category)
                                         /\ ArticleAbove(at, x)}
            IN  /\ FirstOf(pg'.page, below, pg.limit)
                /\ IdsOf(pg'.page) \cap IdsOf(pg.acc) = {}
                /\ pg'.acc = pg.acc \o pg'.page
                /\ pg'.state = "done" => Range(pg'.page) = below
                /\ pg'.state = "paging" =>
                      pg'.cursor = EncodeCursor(pg'.page[Len(pg'.page)])
       /\ NoRepeat(pg'.acc)]_vars

\* Paging ended after an article was stored above the cursor between two
\* pages: it is stored, and no page returned it.
C7_Witness ==
    /\ pg.state = "done" /\ pg.dirty = "between"
    /\ Len(pg.acc) > Len(pg.page)
    /\ \E x \in Stored : InCategory(x, pg.category) /\ x \notin Range(pg.acc)

----------------------------------------------------------------------------
\* C2: the DynamoDB table holds at most one item per article id, and a put
\* of an id that is stored returns false and adds nothing.
C2_CloudOneRowPerId ==
    /\ \A x, y \in cloud : x.article_id = y.article_id => x = y
    /\ (last.op = "put" /\ last.ret = TRUE) =>
          Cardinality({x \in cloud : x.article_id = last.arg.id}) = 1

----------------------------------------------------------------------------
\* The ids stored by the adapter in use.
StoredIds ==
    IF backend = "db" THEN {r.id : r \in rows} ELSE {x.article_id : x \in cloud}

StoredCount == IF backend = "db" THEN Cardinality(rows) ELSE Cardinality(cloud)

\* C3: of two insert calls for one id that ran at the same time exactly one
\* returned true, the other false, and one row of that id is stored.
C3_FirstWriterWins ==
    \A v, w \in Writers :
        (/\ v # w
         /\ wr[v].pc = "returned" /\ wr[w].pc = "returned"
         /\ wr[v].arg.id = wr[w].arg.id) =>
            /\ wr[v].ret # wr[w].ret
            /\ IF backend = "db"
               THEN Cardinality({r \in rows : r.id = wr[v].arg.id}) = 1
               ELSE Cardinality({x \in cloud : x.article_id = wr[v].arg.id}) = 1

\* C4: a batch insert returns a count, not an error, whatever item the
\* storage failed on; every item it did not fail on is stored afterwards,
\* and the count is the number of rows the call added.
C4_BatchIsolation ==
    last.op = "batch" =>
        /\ ~last.err
        /\ \A k \in 1..Len(last.items) :
              k \notin last.fails => last.items[k].id \in StoredIds
        /\ last.ret = StoredCount - last.before

\* C9: the two adapters answer the same calls alike: the same result for
\* each insert, the same articles in the same order on each page, and the
\* end of data on the same page.
C9_AdaptersEquivalent ==
    /\ last.op = "insert" => last.db = last.dy
    /\ pg.state # "idle" =>
          /\ pg.db.articles = pg.dy.articles
          /\ pg.db.next_cursor = NoCursor <=> pg.dy.next_cursor = NoCursor

----------------------------------------------------------------------------
(* Popularity and retention *)

Counter(r, op) == IF op = "view" THEN r.view_count ELSE r.click_count

C13_CountersMonotone ==
    [][/\ \A r \in rows, q \in rows' :
            r.id = q.id =>
                /\ q.view_count >= r.view_count
                /\ q.click_count >= r.click_count
                /\ q.popularity_score >= r.popularity_score
       /\ (\E r \in rows : ~HasId(rows', r.id)) => last'.op \in {"evict", "expire"}]_vars

\* A row with counted views has survived an evict pass that deleted others.
C13_Witness ==
    /\ DOMAIN wr = Viewers
    /\ last.op = "evict" /\ last.ret > 0
    /\ \E r \in rows : r.popularity_score > 0 /\ r.view_count + r.click_count = MaxCount

\* One of the callers takes a step of record_view / record_click.
ViewerStep ==
    \E v \in Viewers :
        wr'[v].pc # wr[v].pc /\ wr'[v].pc \in {"called", "counted", "returned"}

\* C17: a step that removes a row is a hard-evict pass or the housekeeping
\* expiry, and those add none; query, query_fresh, get_by_id and the
\* percentile query leave the table as it is; record_view and record_click
\* add and remove no row and touch only counters and score; soft-degrade
\* adds and removes no row and changes no field but image_url.
C17_RowsDestroyedOnlyByRetention ==
    [][/\ (\E r \in rows : ~HasId(rows', r.id)) =>
             /\ ~ViewerStep
             /\ last'.op \in {"evict", "expire"}
             /\ rows' \subseteq rows
       /\ (~ViewerStep /\ last'.op \in {"query", "fresh", "get", "popular"}) =>
             rows' = rows
       /\ ViewerStep =>
             /\ {r.id : r \in rows'} = {r.id : r \in rows}
             /\ \A r \in rows : \E q \in rows' :
                   q = [r EXCEPT !.view_count = q.view_count,
                                 !.click_count = q.click_count,
                                 !.popularity_score = q.popularity_score]
       /\ (~ViewerStep /\ last'.op = "degrade") =>
             /\ {r.id : r \in rows'} = {r.id : r \in rows}
             /\ \A r \in rows : \E q \in rows' :
                   q = [r EXCEPT !.image_url = q.image_url]]_vars

\* The reads, a view, a click and a degrade pass that cleared an image have
\* all run and both rows are still stored.
C17_Witness ==
    /\ DOMAIN wr = Viewers
    /\ last.op = "popular" /\ Len(last.ret) = 2
    /\ \E r \in rows : r.image_url = Null
    /\ \E r \in rows : r.view_count > 0

----------------------------------------------------------------------------
(* Retention rules *)

\* Twice the median popularity_score of the rows of S (the two middle scores
\* added; the score itself twice when their number is odd).
TwiceMedian(S) ==
    LET n == Cardinality(S)
    IN  IF n = 0 THEN 0
        ELSE ScoreAtAsc(S, (n - 1) \div 2) + ScoreAtAsc(S, n \div 2)

\* C14: one pass of degrade_old_unpopular_images clears image_url of exactly
\* the rows older than the horizon whose popularity_score is above zero and
\* below the median score of the rows older than the horizon, leaves every
\* other row (younger, or of popularity 0) as it was, and returns the number
\* of rows it cleared.
C14_SoftDegradeRule ==
    [][(last'.op = "degrade" /\ <<rows, last>>' # <<rows, last>>) =>
          LET old == Older(rows, last'.cutoff)
              hit == {r \in old : /\ r.popularity_score > 0
                                  /\ 2 * r.popularity_score < TwiceMedian(old)
                                  /\ r.image_url # Null}
          IN  /\ rows' = (rows \ hit) \cup {[r EXCEPT !.image_url = Null] : r \in hit}
              /\ last'.ret = Cardinality(hit)]_vars

C16_HardEvictKeepsTopFifth ==
    [][(last'.op = "evict" /\ <<rows, last>>' # <<rows, last>>) =>
          LET old == Older(rows, last'.cutoff)
              N == Cardinality(old)
              kept == old \cap rows'
          IN  (/\ N > 0 /\ N % 5 = 0
               /\ {r.popularity_score : r \in old} = {Score(k, k) : k \in 0..(N - 1)})
              => /\ Cardinality(kept) = N \div 5
                 /\ \A r \in kept, q \in old \ kept :
                       r.popularity_score > q.popularity_score
                 /\ rows' = (rows \ old) \cup kept]_vars

----------------------------------------------------------------------------
(* Identity resolution *)

\* The pieces of a link's query that are not tracking parameters, as
\* written in the link.
WrittenParams(u) ==
    SelectSeq(SplitAmp(u.query, <<>>), LAMBDA p : ~IsTracking(PairOf(p)))

\* C18: two URLs that differ only by a fragment and by parameters of the
\* tracking set get one id; two URLs that differ in path or in the key or
\* value of a parameter outside the tracking set get different ids; so the
\* item of https://a.example/x?utm_source=tw#top and the item of
\* https://a.example/x have one id, and the second insert is a duplicate.
C18_TrackingVariantsOnly ==
    (last.op = "ids" /\ last.u.base # "" /\ last.v.base # "") =>
        LET u == last.u
            v == last.v
        IN  /\ (u.path = v.path /\ WrittenParams(u) = WrittenParams(v))
                  => last.id_u = last.id_v
            /\ (\/ u.path # v.path
                \/ NonTracking(QueryPairs(u.query)) # NonTracking(QueryPairs(v.query)))
                  => last.id_u # last.id_v

----------------------------------------------------------------------------
(* Clustering *)

\* The indices a chain of similar pairs links to those of S.
RECURSIVE Linked(_, _, _)
Linked(S, titles, threshold) ==
    LET T == S \cup {j \in 0..(Len(titles) - 1) :
                        \E i \in S : \/ Similar(titles[i + 1], titles[j + 1], threshold)
                                     \/ Similar(titles[j + 1], titles[i + 1], threshold)}
    IN  IF T = S THEN S ELSE Linked(T, titles, threshold)

\* C19: group_articles returns a partition of the indices 0..n-1, no group
\* empty, two indices in one group exactly when a chain of pairs of
\* similarity >= threshold links them; so threshold 0.0 gives one group and
\* titles of which no two are similar give n groups of one.
C19_GroupsAreComponents ==
    last.op = "groups" =>
        LET gs == last.ret
            titles == last.titles
            n == Len(titles)
            Members(g) == {gs[g][m] : m \in 1..Len(gs[g])}
        IN  /\ \A g \in 1..Len(gs) : gs[g] # <<>> /\ Members(g) \subseteq 0..(n - 1)
            /\ \A g \in 1..Len(gs) : Cardinality(Members(g)) = Len(gs[g])
            /\ \A i \in 0..(n - 1) :
                  Cardinality({g \in 1..Len(gs) : i \in Members(g)}) = 1
            /\ \A i \in 0..(n - 1) : \A g \in 1..Len(gs) :
                  i \in Members(g) => Members(g) = Linked({i}, titles, last.threshold)
            /\ (last.threshold = 0 /\ n > 0) => Len(gs) = 1
            /\ (\A i, j \in 1..n : i # j => ~Similar(titles[i], titles[j], last.threshold))
                  => Len(gs) = n

\* Three titles in one group of which the first and the third are linked
\* only through the second.
C19_Witness ==
    /\ last.op = "groups"
    /\ Len(last.titles) = 3
    /\ Len(last.ret) = 1
    /\ ~Similar(last.titles[1], last.titles[2], last.threshold)
    /\ Similar(last.titles[1], last.titles[3], last.threshold)
    /\ Similar(last.titles[2], last.titles[3], last.threshold)

\* C20: with grouping enabled get_articles returns one article per
\* component, in the order of the page: of a component of more than one its
\* lowest-index member, with a group id and group_count the size of the
\* component; of a component of one the article as the store gave it, with
\* no group id and no group_count.
C20_ClusterCollapse ==
    (last.op = "articles" /\ last.grouping_enabled) =>
        LET titles == last.titles
            n == Len(titles)
            page == PageOf(titles)
            Comp(i) == Linked({i}, titles, last.threshold)
            reps == Ascending({i \in 0..(n - 1) : \A j \in Comp(i) : i <= j})
        IN  /\ Len(last.ret) = Len(reps)
            /\ \A k \in 1..Len(reps) :
                  LET r == reps[k]
                      a == last.ret[k]
                  IN  IF Cardinality(Comp(r)) > 1
                      THEN /\ a.id = page[r + 1].id /\ a.title = page[r + 1].title
                           /\ a.group_id # NoGroup
                           /\ a.group_count = Cardinality(Comp(r))
                      ELSE a = page[r + 1]

\* A page of three of which two are similar came back as two articles, the
\* first of the pair carrying the count 2.
C20_Witness ==
    /\ last.op = "articles" /\ last.grouping_enabled
    /\ Len(last.titles) = 3
    /\ Len(last.ret) = 2
    /\ \E k \in 1..2 : last.ret[k].group_count = 2 /\ last.ret[k].group_id # NoGroup
    /\ \E k \in 1..2 : last.ret[k].group_id = NoGroup

----------------------------------------------------------------------------
(* End of data *)

\* The cursor a paging step sent: none on a first call.
SentCursor == IF pg.state = "paging" THEN pg.cursor ELSE NoCursor

\* What the client had received before the step.
ReceivedBefore == IF pg.state = "paging" THEN pg.acc ELSE <<>>

\* The stored articles a call with the category and the cursor matches.
MatchingFor(category, cursor) ==
    {x \in Stored :
        /\ InCategory(x, category)
        /\ cursor # NoCursor =>
              ArticleAbove([published_at |-> ParseRfc3339(cursor.p), id |-> cursor.i], x)}

\* C21: Db::query_articles hands out a next_cursor exactly when a matching
\* row is left after the last article it returned, and the cursor holds the
\* published_at and the id of that article; when exactly limit rows were
\* left to match, the page has no next_cursor; five items paged by two come
\* as pages of 2, 2 and 1, the third without a cursor.
C21_EndOfData ==
    [][pg' # pg =>
          LET matching == MatchingFor(pg'.category, SentCursor)
              page == pg'.page
              n == Len(page)
              left == {x \in matching : n = 0 \/ ArticleAbove(page[n], x)}
              total == Cardinality(MatchingFor(pg'.category, NoCursor))
          IN  /\ Range(page) \subseteq matching
              /\ pg'.cursor # NoCursor <=> (n > 0 /\ left # {})
              /\ pg'.cursor # NoCursor =>
                    pg'.cursor = [kind |-> "db", p |-> Rfc3339(page[n].published_at),
                                  i |-> page[n].id]
              /\ Cardinality(matching) = pg'.limit =>
                    n = pg'.limit /\ pg'.cursor = NoCursor
              /\ (total = 5 /\ pg'.limit = 2) =>
                    /\ Len(ReceivedBefore) \in {0, 2, 4}
                    /\ n = IF Len(ReceivedBefore) = 4 THEN 1 ELSE 2
                    /\ pg'.cursor = NoCursor <=> Len(ReceivedBefore) = 4]_vars

\* The third page of five tech items paged by two: one article, no cursor,
\* after two full pages.
C21_Witness ==
    /\ pg.state = "done"
    /\ pg.limit = 2 /\ pg.category = "tech"
    /\ Len(pg.acc) = 5 /\ Len(pg.page) = 1
    /\ pg.cursor = NoCursor

----------------------------------------------------------------------------
(* The orchestrator's loop *)

\* C22: in fetcher::run the body of a fetch tick and the body of a
\* housekeeping tick never run at the same time, and while one of them runs
\* the other does not start: each runs to its end first.  (That either
\* interleaves, storage call by storage call, with the degradation cycle
\* and with requests is what C22_Witness reaches.)
C22_TicksExclusive ==
    /\ [](~(wr["fetch"].pc # "idle" /\ wr["house"].pc # "idle"))
    /\ [][/\ wr["fetch"].pc # "idle" => wr'["house"] = wr["house"]
          /\ wr["house"].pc # "idle" => wr'["fetch"] = wr["fetch"]]_vars

\* A request counted a view while fetch_cycle was between insert_articles
\* and articles_without_image and the degradation cycle between its two
\* passes.
C22_Witness ==
    /\ wr["fetch"].pc = "articles_without_image"
    /\ wr["degrade"].pc = "cleanup_old_articles_bottom_80"
    /\ last.task = "request" /\ last.call = "increment_view_count"
    /\ wr["house"].pc = "idle"

\* A step in which a storage call of the body t returned an Err.
ErrReturned(t) == wr'[t] # wr[t] /\ last'.task = t /\ last'.res = "err"

\* The loops outlive the errors and come back to their ticks, whether or not
\* the Err was logged.
C23_SurviveOnly ==
    /\ [](\A t \in Tasks : wr[t].pc # "exited")
    /\ [][(wr["degrade"].pc = "degrade_old_unpopular_images"
             /\ wr'["degrade"] # wr["degrade"])
            => wr'["degrade"].pc = "cleanup_old_articles_bottom_80"]_vars
    /\ \A t \in Tasks : (wr[t].pc # "idle") ~> (wr[t].pc = "idle")
    /\ \A t \in Tasks : pg[t] ~> ~pg[t]

\* C23: when a storage call made in a fetch tick, a housekeeping tick or a
\* degradation cycle returns an Err, the loop logs it; no Err ends
\* fetcher::run or degradation_agent::run; a failed soft-degrade is followed
\* by the hard-evict step; and every body comes back to the await of its
\* next tick, which is taken when it is due.
C23_LoopsSurviveErrors ==
    /\ [][\A t \in Tasks : ErrReturned(t) => last'.log = "warn"]_vars
    /\ C23_SurviveOnly

\* C24: a storage call made inside a periodic loop is bounded by a timeout
\* of its caller: a body waiting in a call that never returns gives the call
\* up and comes back to the await of its next tick.
C24_StalledCallAbandoned ==
    \A t \in Tasks : wr[t].waits ~> (wr[t].pc = "idle" /\ ~wr[t].waits)

\* Feed k was fetched and parsed in the cycle whose outcomes are recorded.
FeedOk(k) == Feeds[k].category \in Cats /\ last.outcomes[k] = "ok"

\* C25: whatever feeds fail to fetch or to parse or have an unknown
\* category, fetch_cycle goes on to insert_articles with the articles of
\* every other feed and with none of a failing feed, and insert_articles
\* is given exactly those.
C25_FailureIsolation ==
    /\ []((last.call = "fetch_all_feeds" /\ wr["fetch"].pc = "insert_articles") =>
            LET articles == wr["fetch"].locals.articles
            IN  /\ \A k \in 1..Len(Feeds) : FeedOk(k) =>
                      \E j \in 1..Len(articles) :
                          /\ articles[j].source = Feeds[k].source
                          /\ articles[j].id = Feeds[k].lists
                /\ \A j \in 1..Len(articles) : \E k \in 1..Len(Feeds) :
                      FeedOk(k) /\ articles[j].source = Feeds[k].source
                /\ Len(articles) = Cardinality({k \in 1..Len(Feeds) : FeedOk(k)}))
    /\ [][(wr["fetch"].pc = "fetch_all_feeds" /\ wr'["fetch"] # wr["fetch"])
            => wr'["fetch"].pc = "insert_articles"]_vars
    /\ [][(wr["fetch"].pc = "insert_articles" /\ wr'["fetch"] # wr["fetch"]
             /\ last'.res = "ok")
            => \A j \in 1..Len(wr["fetch"].locals.articles) :
                  HasId(rows', wr["fetch"].locals.articles[j].id)]_vars

\* The first feed failed, the second has an unknown category, and the
\* article of the third is on its way to insert_articles.
C25_Witness ==
    /\ last.call = "fetch_all_feeds" /\ wr["fetch"].pc = "insert_articles"
    /\ last.outcomes[1] # "ok" /\ last.outcomes[3] = "ok"
    /\ Len(wr["fetch"].locals.articles) = 1
    /\ wr["fetch"].locals.articles[1].source = "s3"

----------------------------------------------------------------------------
(* Percentile slice *)

\* The rows that must come before r in the order popularity_score DESC,
\* published_at DESC, and those that may.
RankedAbove(r) ==
    {q \in rows : /\ q.popularity_score > 0
                  /\ \/ q.popularity_score > r.popularity_score
                     \/ /\ q.popularity_score = r.popularity_score
                        /\ StrLess(r.published_at, q.published_at)}

RankedWith(r) ==
    {q \in rows : /\ q.popularity_score = r.popularity_score
                  /\ q.published_at = r.published_at}

----------------------------------------------------------------------------
(* Hard evict *)

\* C27: a pass of cleanup_old_articles_bottom_80 deletes only rows older
\* than the horizon, and none whose popularity_score is greater than or equal
\* to that of an older row it leaves; it leaves every older row whose score
\* equals the cutoff score; it deletes nothing when the older rows all have
\* one score or when there is none.
C27_EvictUpwardClosed ==
    [][last'.op = "evict" =>
          LET t == last'.cutoff
              aged == Older(rows, t)
              deleted == rows \ rows'
              kept == aged \cap rows'
          IN  /\ rows' \subseteq rows
              /\ deleted \subseteq aged
              /\ \A d \in deleted, k \in kept :
                    d.popularity_score < k.popularity_score
              /\ \A r \in aged :
                    r.popularity_score = Percentile20Score(rows, t) => r \in rows'
              /\ Cardinality({r.popularity_score : r \in aged}) <= 1 => rows' = rows]_vars

\* A pass deleted rows and left two older rows of one score, the highest.
C27_Witness ==
    /\ last.op = "evict" /\ last.ret > 0
    /\ \E r, q \in Older(rows, last.cutoff) :
          /\ r # q /\ r.popularity_score = q.popularity_score
          /\ \A x \in Older(rows, last.cutoff) :
                x.popularity_score <= r.popularity_score

----------------------------------------------------------------------------
(* Deletion and identity *)

\* C28: once a hard-evict pass or the housekeeping expiry has deleted the
\* row of an id, the next insert of an article of that id returns true and
\* stores a new row whose view_count, click_count and popularity_score are
\* 0, whatever they were before the deletion.
C28_DedupEndsWithRow ==
    /\ [](pg.deleted \cap IdsIn(rows) = {})
    /\ [][(last'.op = "insert" /\ last'.arg.id \in pg.deleted) =>
            /\ last'.ret = TRUE
            /\ HasId(rows', last'.arg.id)
            /\ LET r == RowOf(rows', last'.arg.id)
               IN  /\ r.view_count = 0 /\ r.click_count = 0
                   /\ r.popularity_score = 0
                   /\ RowToArticle(r) = last'.arg
            /\ rows' \ {RowOf(rows', last'.arg.id)} = rows]_vars

\* An article was deleted by the hard evict and stored again, twice over,
\* and is stored now as a row nobody has viewed, while an article that was
\* viewed is stored beside it.
C28_Witness ==
    /\ last.op = "insert" /\ last.ret = TRUE
    /\ pg.cycles[last.arg.id] = MaxCycles
    /\ HasId(rows, last.arg.id)
    /\ RowOf(rows, last.arg.id).view_count = 0
    /\ \E r \in rows : r.view_count > 0

\* C29: a fetch tick lists every row whose image_url is null, those a
\* degrade pass has cleared among them, and gives each row whose image it
\* finds a new image_url, leaving its age and its score as they are; and a
\* degrade pass clears the image_url of every row that is older than the
\* horizon and of a score above 0 and below the median, cleared and fetched
\* again before or not.
C29_DegradeNotFinal ==
    /\ [][last'.op = "enrich" =>
            /\ {last'.listed[k] : k \in 1..Len(last'.listed)}
                  = IdsIn({r \in rows : r.image_url = Null})
            /\ \A r \in rows :
                  /\ HasId(rows', r.id)
                  /\ RowOf(rows', r.id) =
                        IF r.id \in last'.found THEN [r EXCEPT !.image_url = "og"] ELSE r
            /\ \A id \in last'.found : RowOf(rows', id).image_url # Null]_vars
    /\ [][last'.op = "degrade" =>
            \A r \in Older(rows, last'.cutoff) :
                (/\ r.popularity_score > 0
                 /\ r.popularity_score < MedianScore(rows, last'.cutoff))
                    => /\ HasId(rows', r.id)
                       /\ RowOf(rows', r.id).image_url = Null]_vars

\* A degrade pass has just cleared an image that an earlier pass had
\* cleared and a fetch tick had fetched again.
C29_Witness ==
    /\ last.op = "degrade" /\ last.ret > 0
    /\ \E id \in pg.restored :
          /\ HasId(rows, id)
          /\ RowOf(rows, id).image_url = Null

----------------------------------------------------------------------------
(* Clustering and paging *)

\* How many stored rows the articles of a page stand for.
RECURSIVE StandFor(_)
StandFor(s) ==
    IF s = <<>> THEN 0
    ELSE (IF Head(s).group_count > 0 THEN Head(s).group_count ELSE 1) + StandFor(Tail(s))

\* C30: with grouping enabled the next_cursor of get_articles is the
\* position of the last row of the page the store returned, whether the
\* handler returned or dropped that row; every row of the store's page is
\* returned or counted in a representative of the same page; and pages
\* followed to the end with no write in between cover every matching row
\* once: none skipped, none twice.
C30_ClusteringKeepsPaging ==
    /\ [][pg' # pg =>
            LET matching == MatchingFor(pg'.category, SentCursor)
                raw == pg'.raw
                n == Len(raw)
            IN  /\ FirstOf(raw, matching, pg'.limit)
                /\ pg'.cursor # NoCursor <=> Cardinality(matching) > pg'.limit
                /\ pg'.cursor # NoCursor =>
                      pg'.cursor = [kind |-> "db", p |-> Rfc3339(raw[n].published_at),
                                    i |-> raw[n].id]
                /\ IdsOf(pg'.page) \subseteq IdsOf(raw)
                /\ StandFor(pg'.page) = n
                /\ Len(pg'.page) <= n]_vars
    /\ [](pg.state = "done" =>
            LET matching == MatchingFor(pg.category, NoCursor)
            IN  /\ NoRepeat(pg.rawacc)
                /\ Range(pg.rawacc) = matching
                /\ NoRepeat(pg.acc)
                /\ StandFor(pg.acc) = Cardinality(matching))

\* A page of fewer articles than the limit that carries a next_cursor: the
\* last row of the store's page was dropped into its representative, and
\* the cursor is that row's position.
C30_Witness ==
    /\ pg.state = "paging"
    /\ Len(pg.page) < pg.limit
    /\ Len(pg.raw) = pg.limit
    /\ pg.cursor # NoCursor
    /\ pg.raw[Len(pg.raw)].id \notin IdsOf(pg.page)
    /\ pg.cursor.i = pg.raw[Len(pg.raw)].id

====
